---- MODULE Spec2Model ----
(***************************************************************************)
(* A model of the persistent collections of package immutable              *)
(* (immutable.go): List (radix-32 trie), Map (hash array mapped trie) and  *)
(* SortedMap (B+tree).  Every node and every collection facade is an       *)
(* object of a heap; a Go pointer is an address of the heap (0 is nil), an *)
(* allocation appends one object, and an operation is an operator from a   *)
(* heap to a heap and the address it returns.                              *)
(***************************************************************************)
EXTENDS Integers, Sequences, FiniteSets, TLC

VARIABLES heap,   \* the objects allocated so far, by address 1..Len(heap)
          cur,    \* address of the collection the next operation is called on
          recv,   \* address of the receiver of the last operation (0: none)
          op,     \* the last operation: its name and arguments
          grown,  \* number of growth steps taken (fresh key / fresh element)
          shrunk, \* number of shrink steps taken after the growth steps
          nops,   \* number of free operations taken after the growth steps
          itr,    \* the iterator object (kind "none" when not created)
          out,    \* what the iterator's Next calls returned since First/Seek
          abs     \* ghost: the abstract contents the operations so far define

vars == <<heap, cur, recv, op, grown, shrunk, nops, itr, out, abs>>

\* nil pointer, nil interface value
Nil == 0

----------------------------------------------------------------------------
(* Bounds of the exploration *)

\* free operations explored from the empty collection
MaxOps == 3
\* free operations explored after at least one growth step
MaxGrownOps == 2
\* growth steps of a List (Append of a fresh element)
MaxListGrow == 33
\* growth steps of a Map (Set of the next key of MapSpineKey)
MaxMapGrow == 22
\* shrink steps of a Map (Delete of the keys last added, last first)
MaxMapShrink == 5
\* growth steps of a SortedMap after which free operations are explored
MaxSMGrow == 34
\* shrink steps of a SortedMap (Delete of the smallest key)
MaxSMShrink == 17
\* growth steps of a SortedMap in all (Set of the next key of SMSpineKey)
SMSeedLen == 560
\* values that writers derive while a reader iterates
MaxSharedOps == 2
\* heap objects above which the garbage collector runs on a larger SortedMap
MaxSMHeap == 64
\* a SortedMap with more entries is iterated only before its free operations
MaxItrLen == 40
\* calls of Next or Prev made on a list iterator that is done
MaxDoneCalls == 2

----------------------------------------------------------------------------
(* The heap *)

\* &T{...}: allocate one object, return the new heap and its address
Alloc(h, obj) == [h |-> Append(h, obj), n |-> Len(h) + 1]

\* an array value with slots 0..n-1, as an explicit function (slot 0 exists)
Slots(f) == f @@ (0 :> f[0])

\* the value of an array of n slots with all slots nil
NilSlots(n) == Slots([i \in 0..(n - 1) |-> Nil])

\* x >> s for s >= 0 (arithmetic shift: floor division)
Shr(x, s) == x \div (2 ^ s)

----------------------------------------------------------------------------
(* List *)

listNodeBits == 5
listNodeSize == 2 ^ listNodeBits
listNodeMask == listNodeSize - 1

\* x & listNodeMask on a two's complement int
ListMask(x) == x % listNodeSize

NewListLeaf == [kind |-> "listLeaf", children |-> NilSlots(listNodeSize)]
NewListBranch(d) == [kind |-> "listBranch", d |-> d, children |-> NilSlots(listNodeSize)]

\* NewList: a List whose root is a fresh empty leaf
NewList(h) ==
    LET r == Alloc(h, NewListLeaf)
    IN  Alloc(r.h, [kind |-> "List", root |-> r.n, origin |-> 0, size |-> 0])

\* newListNode(depth)
newListNode(depth) == IF depth = 0 THEN NewListLeaf ELSE NewListBranch(depth)

\* listNode.depth()
listNode_depth(h, n) == IF h[n].kind = "listLeaf" THEN 0 ELSE h[n].d

\* List.Len
List_Len(h, l) == h[l].size

\* List.cap
List_cap(h, l) == 2 ^ (listNode_depth(h, h[l].root) * listNodeBits)

\* listBranchNode.get / listLeafNode.get
RECURSIVE listNode_get(_, _, _)
listNode_get(h, n, index) ==
    IF h[n].kind = "listLeaf"
    THEN h[n].children[ListMask(index)]
    ELSE listNode_get(h, h[n].children[ListMask(Shr(index, h[n].d * listNodeBits))], index)

\* the check that opens List.Get
List_Get_panic(h, l, index) ==
    IF index < 0 \/ index >= h[l].size THEN "IndexOutOfRange" ELSE "none"

\* List.Get past its check
List_Get(h, l, index) == listNode_get(h, h[l].root, h[l].origin + index)

\* listLeafNode.set writing the slot of the receiver's own leaf
listLeafNode_set_inplace(h, n, index, v) ==
    [h |-> [h EXCEPT ![n].children[ListMask(index)] = v], n |-> n]

\* listLeafNode.set: a copy of the leaf with slot idx updated
listLeafNode_set(h, n, index, v) ==
    LET idx == ListMask(index)
    IN  Alloc(h, [h[n] EXCEPT !.children[idx] = v])

\* listBranchNode.set / listLeafNode.set
RECURSIVE listNode_set(_, _, _, _)
listNode_set(h, n, index, v) ==
    IF h[n].kind = "listLeaf"
    THEN listLeafNode_set(h, n, index, v)
    ELSE LET idx == ListMask(Shr(index, h[n].d * listNodeBits))
             c0  == h[n].children[idx]
             \* a missing child is materialised as a fresh empty node
             sc  == IF c0 = Nil THEN Alloc(h, newListNode(h[n].d - 1))
                                ELSE [h |-> h, n |-> c0]
             sr  == listNode_set(sc.h, sc.n, index, v)
         IN  Alloc(sr.h, [h[n] EXCEPT !.children[idx] = sr.n])

\* the check that opens List.Set
List_Set_panic(h, l, index) ==
    IF index < 0 \/ index >= h[l].size THEN "IndexOutOfRange" ELSE "none"

\* List.Set that forgets the origin of the list
List_Set_noorigin(h, l, index, v) ==
    LET r == listNode_set(h, h[l].root, index, v)
    IN  Alloc(r.h, [h[l] EXCEPT !.root = r.n])

\* List.Set (index in range)
List_Set(h, l, index, v) ==
    LET r == listNode_set(h, h[l].root, h[l].origin + index, v)
    IN  Alloc(r.h, [h[l] EXCEPT !.root = r.n])

\* List.Append that writes the tail slot before counting the new element
List_Append_oldsize(h, l, v) ==
    LET o  == h[l]
        ex == o.size + o.origin >= List_cap(h, l)
        r0 == IF ex
              THEN Alloc(h, [NewListBranch(listNode_depth(h, o.root) + 1)
                                EXCEPT !.children[0] = o.root])
              ELSE [h |-> h, n |-> o.root]
        r1 == listNode_set(r0.h, r0.n, o.origin + o.size - 1, v)
    IN  Alloc(r1.h, [o EXCEPT !.size = o.size + 1, !.root = r1.n])

\* List.Append
List_Append(h, l, v) ==
    LET o  == h[l]
        ex == o.size + o.origin >= List_cap(h, l)
        r0 == IF ex
              THEN Alloc(h, [NewListBranch(listNode_depth(h, o.root) + 1)
                                EXCEPT !.children[0] = o.root])
              ELSE [h |-> h, n |-> o.root]
        r1 == listNode_set(r0.h, r0.n, o.origin + (o.size + 1) - 1, v)
    IN  Alloc(r1.h, [o EXCEPT !.size = o.size + 1, !.root = r1.n])

\* List.Prepend that moves origin by the span of the old root's depth
List_Prepend_olddepth(h, l, v) ==
    LET o  == h[l]
        ex == o.origin = 0
        nd == listNode_depth(h, o.root) + 1
        r0 == IF ex
              THEN Alloc(h, [NewListBranch(nd) EXCEPT !.children[listNodeSize - 1] = o.root])
              ELSE [h |-> h, n |-> o.root]
        og == (IF ex THEN o.origin + (listNodeSize - 1) * (2 ^ ((nd - 1) * listNodeBits))
                     ELSE o.origin) - 1
        r1 == listNode_set(r0.h, r0.n, og, v)
    IN  Alloc(r1.h, [o EXCEPT !.size = o.size + 1, !.origin = og, !.root = r1.n])

\* List.Prepend
List_Prepend(h, l, v) ==
    LET o  == h[l]
        ex == o.origin = 0
        nd == listNode_depth(h, o.root) + 1
        r0 == IF ex
              THEN Alloc(h, [NewListBranch(nd) EXCEPT !.children[listNodeSize - 1] = o.root])
              ELSE [h |-> h, n |-> o.root]
        og == (IF ex THEN o.origin + (listNodeSize - 1) * (2 ^ (nd * listNodeBits))
                     ELSE o.origin) - 1
        r1 == listNode_set(r0.h, r0.n, og, v)
    IN  Alloc(r1.h, [o EXCEPT !.size = o.size + 1, !.origin = og, !.root = r1.n])

\* listBranchNode.containsBefore / listLeafNode.containsBefore
RECURSIVE listNode_containsBefore(_, _, _)
listNode_containsBefore(h, n, index) ==
    IF h[n].kind = "listLeaf"
    THEN \E i \in 0..(ListMask(index) - 1) : h[n].children[i] # Nil
    ELSE LET idx == ListMask(Shr(index, h[n].d * listNodeBits))
         IN  \/ \E i \in 0..(idx - 1) : h[n].children[i] # Nil
             \/ /\ h[n].children[idx] # Nil
                /\ listNode_containsBefore(h, h[n].children[idx], index)

\* listBranchNode.containsAfter / listLeafNode.containsAfter
RECURSIVE listNode_containsAfter(_, _, _)
listNode_containsAfter(h, n, index) ==
    IF h[n].kind = "listLeaf"
    THEN \E i \in (ListMask(index) + 1)..(listNodeSize - 1) : h[n].children[i] # Nil
    ELSE LET idx == ListMask(Shr(index, h[n].d * listNodeBits))
         IN  \/ \E i \in (idx + 1)..(listNodeSize - 1) : h[n].children[i] # Nil
             \/ /\ h[n].children[idx] # Nil
                /\ listNode_containsAfter(h, h[n].children[idx], index)

RECURSIVE listNode_deleteBefore(_, _, _)

\* deleteBefore whose leaf copy starts one slot after index
listNode_deleteBefore_dropfirst(h, n, index) ==
    IF ~listNode_containsBefore(h, n, index) THEN [h |-> h, n |-> n]
    ELSE IF h[n].kind = "listLeaf"
    THEN LET idx == ListMask(index)
         IN  Alloc(h, [kind |-> "listLeaf",
                       children |-> Slots([i \in 0..(listNodeSize - 1) |->
                                        IF i > idx THEN h[n].children[i] ELSE Nil])])
    ELSE LET idx == ListMask(Shr(index, h[n].d * listNodeBits))
             c   == h[n].children[idx]
             r   == IF c # Nil THEN listNode_deleteBefore(h, c, index)
                               ELSE [h |-> h, n |-> Nil]
         IN  Alloc(r.h, [kind |-> "listBranch", d |-> h[n].d,
                         children |-> Slots([i \in 0..(listNodeSize - 1) |->
                                          IF i = idx THEN r.n
                                          ELSE IF i > idx THEN h[n].children[i] ELSE Nil])])

\* listBranchNode.deleteBefore / listLeafNode.deleteBefore
listNode_deleteBefore(h, n, index) ==
    IF ~listNode_containsBefore(h, n, index) THEN [h |-> h, n |-> n]
    ELSE IF h[n].kind = "listLeaf"
    THEN LET idx == ListMask(index)
         IN  Alloc(h, [kind |-> "listLeaf",
                       children |-> Slots([i \in 0..(listNodeSize - 1) |->
                                        IF i >= idx THEN h[n].children[i] ELSE Nil])])
    ELSE LET idx == ListMask(Shr(index, h[n].d * listNodeBits))
             c   == h[n].children[idx]
             r   == IF c # Nil THEN listNode_deleteBefore(h, c, index)
                               ELSE [h |-> h, n |-> Nil]
         IN  Alloc(r.h, [kind |-> "listBranch", d |-> h[n].d,
                         children |-> Slots([i \in 0..(listNodeSize - 1) |->
                                          IF i = idx THEN r.n
                                          ELSE IF i > idx THEN h[n].children[i] ELSE Nil])])

\* listBranchNode.deleteAfter / listLeafNode.deleteAfter
RECURSIVE listNode_deleteAfter(_, _, _)
listNode_deleteAfter(h, n, index) ==
    IF ~listNode_containsAfter(h, n, index) THEN [h |-> h, n |-> n]
    ELSE IF h[n].kind = "listLeaf"
    THEN LET idx == ListMask(index)
         IN  Alloc(h, [kind |-> "listLeaf",
                       children |-> Slots([i \in 0..(listNodeSize - 1) |->
                                        IF i <= idx THEN h[n].children[i] ELSE Nil])])
    ELSE LET idx == ListMask(Shr(index, h[n].d * listNodeBits))
             c   == h[n].children[idx]
             r   == IF c # Nil THEN listNode_deleteAfter(h, c, index)
                               ELSE [h |-> h, n |-> Nil]
         IN  Alloc(r.h, [kind |-> "listBranch", d |-> h[n].d,
                         children |-> Slots([i \in 0..(listNodeSize - 1) |->
                                          IF i = idx THEN r.n
                                          ELSE IF i < idx THEN h[n].children[i] ELSE Nil])])

\* the loop of List.Slice that replaces the root by its child and keeps origin
RECURSIVE List_contract_keeporigin(_, _)
List_contract_keeporigin(h, o) ==
    LET d == listNode_depth(h, o.root)
        i == ListMask(Shr(o.origin, d * listNodeBits))
        j == ListMask(Shr(o.origin + o.size - 1, d * listNodeBits))
    IN  IF d > 1 /\ i = j
        THEN List_contract_keeporigin(h, [o EXCEPT !.root = h[o.root].children[i]])
        ELSE o

\* List.Slice, the loop that contracts the root while start and end are in
\* the same child; o is the copied facade
RECURSIVE List_contract(_, _)
List_contract(h, o) ==
    LET d == listNode_depth(h, o.root)
        i == ListMask(Shr(o.origin, d * listNodeBits))
        j == ListMask(Shr(o.origin + o.size - 1, d * listNodeBits))
    IN  IF d > 1 /\ i = j
        THEN List_contract(h, [o EXCEPT !.origin = o.origin - i * (2 ^ (d * listNodeBits)),
                                        !.root = h[o.root].children[i]])
        ELSE o

\* the checks of List.Slice with a start index that must be below the size
List_Slice_panic_strictstart(h, l, start, end) ==
    IF start < 0 \/ start >= h[l].size THEN "IndexOutOfRange"
    ELSE IF end < 0 \/ end > h[l].size THEN "IndexOutOfRange"
    ELSE IF start > end THEN "InvalidSlice"
    ELSE "none"

\* the checks that open List.Slice
List_Slice_panic(h, l, start, end) ==
    IF start < 0 \/ start > h[l].size THEN "IndexOutOfRange"
    ELSE IF end < 0 \/ end > h[l].size THEN "IndexOutOfRange"
    ELSE IF start > end THEN "InvalidSlice"
    ELSE "none"

\* List.Slice that returns the receiver only if it is empty
List_Slice_copyfull(h, l, start, end) ==
    IF start = 0 /\ end = h[l].size /\ h[l].size = 0 THEN [h |-> h, n |-> l]
    ELSE LET o  == List_contract(h, [h[l] EXCEPT !.origin = h[l].origin + start,
                                                 !.size = end - start])
             r0 == listNode_deleteBefore(h, o.root, o.origin)
             r1 == listNode_deleteAfter(r0.h, r0.n, o.origin + o.size - 1)
         IN  Alloc(r1.h, [o EXCEPT !.root = r1.n])

\* List.Slice (0 <= start <= end <= size)
List_Slice(h, l, start, end) ==
    IF start = 0 /\ end = h[l].size THEN [h |-> h, n |-> l]
    ELSE LET o  == List_contract(h, [h[l] EXCEPT !.origin = h[l].origin + start,
                                                 !.size = end - start])
             r0 == listNode_deleteBefore(h, o.root, o.origin)
             r1 == listNode_deleteAfter(r0.h, r0.n, o.origin + o.size - 1)
         IN  Alloc(r1.h, [o EXCEPT !.root = r1.n])

----------------------------------------------------------------------------
(* Keys *)

\* A key is a Go value of any type.  The keys of the model are integers: a
\* key k >= 0 is the Go int k; the string of the one byte b, the byte slice
\* of the one byte b and the float64 f are the integers below 0 given here.
StringKey(b) == -(1000 + b)
ByteSliceKey(b) == -(2000 + b)
Float64Key(f) == -(3000 + f)

\* key.(type)
KeyKind(key) ==
    IF key >= 0 THEN "int"
    ELSE IF key > -2000 THEN "string"
    ELSE IF key > -3000 THEN "[]byte"
    ELSE "float64"

\* the byte of a string or byte slice key
KeyByte(key) == (-key) % 1000

----------------------------------------------------------------------------
(* Hasher *)

\* the hash a client's Hasher keeps: the low 29 bits of the key
UserHashBits == 29

\* Hasher.Hash: intHasher hashes with hashUint64, whose loop does not run for
\* a key of at most 32 bits: the hash is the key; the client's Hasher keeps
\* the low bits of the key, so that keys 2^29 apart collide; a second client
\* Hasher gives every key the hash 0; stringHasher and byteSliceHasher go once
\* through 31 * hash + byte, from hash 0, for a key of one byte
Hasher_Hash(hs, key) ==
    IF hs = "userHasher" THEN key % (2 ^ UserHashBits)
    ELSE IF hs = "constHasher" THEN 0
    ELSE IF hs \in {"stringHasher", "byteSliceHasher"} THEN 31 * 0 + KeyByte(key)
    ELSE key

\* the type a built-in Hasher or Comparer asserts of its keys; a client's
\* takes every key
AssertedKind(hc) ==
    IF hc \in {"intHasher", "intComparer"} THEN "int"
    ELSE IF hc \in {"stringHasher", "stringComparer"} THEN "string"
    ELSE IF hc \in {"byteSliceHasher", "byteSliceComparer"} THEN "[]byte"
    ELSE "any"

\* Hasher.Equal
Hasher_Equal(hs, a, b) == a = b

----------------------------------------------------------------------------
(* Map *)

maxArrayMapSize == 8
maxBitmapIndexedSize == 16

mapNodeBits == 5
mapNodeSize == 2 ^ mapNodeBits
mapNodeMask == mapNodeSize - 1

\* (keyHash >> shift) & mapNodeMask
MapFrag(keyHash, shift) == Shr(keyHash, shift) % mapNodeSize

\* A uint32 bitmap is the set of the positions of its 1 bits.
\* bits.OnesCount32(bitmap & (bit-1)) for bit == 1 << frag
OnesBelow(bitmap, frag) == Cardinality({b \in bitmap : b < frag})

\* NewMap(hasher)
NewMap(h, hasher) == Alloc(h, [kind |-> "Map", size |-> 0, root |-> Nil, hasher |-> hasher])

\* Map.Len
Map_Len(h, m) == h[m].size

NotFound == [value |-> Nil, ok |-> FALSE]
Found(v) == [value |-> v, ok |-> TRUE]

\* mapArrayNode.indexOf / mapHashCollisionNode.indexOf: the first entry whose
\* key is equal, from 0; -1 if none
mapEntries_indexOf(entries, key, hs) ==
    LET hit == {i \in 1..Len(entries) : Hasher_Equal(hs, entries[i].key, key)}
    IN  IF hit = {} THEN -1 ELSE (CHOOSE i \in hit : \A j \in hit : i <= j) - 1

\* mapNode.get of the five node types
RECURSIVE mapNode_get(_, _, _, _, _, _)
mapNode_get(h, n, key, shift, keyHash, hs) ==
    LET nd == h[n]
    IN  CASE nd.kind = "mapArray" ->
               LET i == mapEntries_indexOf(nd.entries, key, hs)
               IN  IF i = -1 THEN NotFound ELSE Found(nd.entries[i + 1].value)
          [] nd.kind = "mapBitmap" ->
               LET frag == MapFrag(keyHash, shift)
               IN  IF frag \notin nd.bitmap THEN NotFound
                   ELSE mapNode_get(h, nd.nodes[OnesBelow(nd.bitmap, frag) + 1], key,
                                    shift + mapNodeBits, keyHash, hs)
          [] nd.kind = "mapHashArray" ->
               LET node == nd.nodes[MapFrag(keyHash, shift)]
               IN  IF node = Nil THEN NotFound
                   ELSE mapNode_get(h, node, key, shift + mapNodeBits, keyHash, hs)
          [] nd.kind = "mapValue" ->
               IF ~Hasher_Equal(hs, nd.key, key) THEN NotFound ELSE Found(nd.value)
          [] nd.kind = "mapCollision" ->
               LET i == mapEntries_indexOf(nd.entries, key, hs)
               IN  IF i = -1 THEN NotFound ELSE Found(nd.entries[i + 1].value)

\* Map.Get panics in the type assertion of a built-in hasher when the map
\* is not empty and the key is of another type
Map_Get_panic(h, m, key) ==
    IF h[m].root # Nil /\ AssertedKind(h[m].hasher) \notin {"any", KeyKind(key)}
    THEN "TypeAssertion"
    ELSE "none"

\* Map.Get
Map_Get(h, m, key) ==
    IF h[m].root = Nil THEN NotFound
    ELSE mapNode_get(h, h[m].root, key, 0, Hasher_Hash(h[m].hasher, key), h[m].hasher)

\* newMapValueNode
newMapValueNode(keyHash, key, value) ==
    [kind |-> "mapValue", keyHash |-> keyHash, key |-> key, value |-> value]

\* mapLeafNode.keyHashValue
keyHashValue(h, n) == h[n].keyHash

\* mergeIntoNode that puts the two leaves in the order opposite to their bits
RECURSIVE mergeIntoNode_swapped(_, _, _, _, _, _)
mergeIntoNode_swapped(h, node, shift, keyHash, key, value) ==
    LET idx1 == MapFrag(keyHashValue(h, node), shift)
        idx2 == MapFrag(keyHash, shift)
    IN  IF idx1 = idx2
        THEN LET mr == mergeIntoNode_swapped(h, node, shift + mapNodeBits, keyHash, key, value)
             IN  Alloc(mr.h, [kind |-> "mapBitmap", bitmap |-> {idx1, idx2},
                              nodes |-> <<mr.n>>])
        ELSE LET nv == Alloc(h, newMapValueNode(keyHash, key, value))
             IN  Alloc(nv.h, [kind |-> "mapBitmap", bitmap |-> {idx1, idx2},
                              nodes |-> IF idx1 < idx2 THEN <<nv.n, node>>
                                                       ELSE <<node, nv.n>>])

\* mergeIntoNode: the branches that separate leaf node from a new value leaf
RECURSIVE mergeIntoNode(_, _, _, _, _, _)
mergeIntoNode(h, node, shift, keyHash, key, value) ==
    LET idx1 == MapFrag(keyHashValue(h, node), shift)
        idx2 == MapFrag(keyHash, shift)
    IN  IF idx1 = idx2
        THEN LET mr == mergeIntoNode(h, node, shift + mapNodeBits, keyHash, key, value)
             IN  Alloc(mr.h, [kind |-> "mapBitmap", bitmap |-> {idx1, idx2},
                              nodes |-> <<mr.n>>])
        ELSE LET nv == Alloc(h, newMapValueNode(keyHash, key, value))
             IN  Alloc(nv.h, [kind |-> "mapBitmap", bitmap |-> {idx1, idx2},
                              nodes |-> IF idx1 < idx2 THEN <<node, nv.n>>
                                                       ELSE <<nv.n, node>>])

\* a set returns the heap, the node and the resized flag
SetRes(r, rz) == [h |-> r.h, n |-> r.n, resized |-> rz]

\* the packed children of a bitmap branch placed at their bit positions,
\* slot by slot as the conversion loop of mapBitmapIndexedNode.set does
RECURSIVE bitmapToHashArray(_, _, _, _)
bitmapToHashArray(nd, i, count, nodes) ==
    IF i = mapNodeSize THEN [count |-> count, nodes |-> nodes]
    ELSE IF i \in nd.bitmap
         THEN bitmapToHashArray(nd, i + 1, count + 1,
                                [nodes EXCEPT ![i] = nd.nodes[count + 1]])
         ELSE bitmapToHashArray(nd, i + 1, count, nodes)

\* the children of a hash-array branch other than slot idx, packed in slot
\* order with their bits, as the loop of mapHashArrayNode.delete does
RECURSIVE hashArrayToBitmap(_, _, _, _, _)
hashArrayToBitmap(nd, idx, i, bitmap, nodes) ==
    IF i = mapNodeSize THEN [kind |-> "mapBitmap", bitmap |-> bitmap, nodes |-> nodes]
    ELSE IF nd.nodes[i] # Nil /\ i # idx
         THEN hashArrayToBitmap(nd, idx, i + 1, bitmap \cup {i}, Append(nodes, nd.nodes[i]))
         ELSE hashArrayToBitmap(nd, idx, i + 1, bitmap, nodes)

\* s without its element at index idx (from 0)
SeqRemove(s, idx) == SubSeq(s, 1, idx) \o SubSeq(s, idx + 2, Len(s))

\* s with x inserted so that it gets index idx (from 0)
SeqInsert(s, idx, x) == SubSeq(s, 1, idx) \o <<x>> \o SubSeq(s, idx + 1, Len(s))

RECURSIVE mapNode_set(_, _, _, _, _, _, _, _)

\* the loop of mapArrayNode.set that re-inserts the entries from entry i on
RECURSIVE mapArrayNode_expand(_, _, _, _, _, _)
mapArrayNode_expand(h, node, entries, i, hs, rz) ==
    IF i > Len(entries) THEN [h |-> h, n |-> node, resized |-> rz]
    ELSE LET er == mapNode_set(h, node, entries[i].key, entries[i].value, 0,
                               Hasher_Hash(hs, entries[i].key), hs, rz)
         IN  mapArrayNode_expand(er.h, er.n, entries, i + 1, hs, er.resized)

\* mapArrayNode.set that expands the node only above maxArrayMapSize entries
mapArrayNode_set_late(h, n, key, value, shift, keyHash, hs, rz) ==
    LET nd  == h[n]
        idx == mapEntries_indexOf(nd.entries, key, hs)
        rz1 == rz \/ idx = -1
    IN  IF idx = -1 /\ Len(nd.entries) > maxArrayMapSize
        THEN LET vn == Alloc(h, newMapValueNode(Hasher_Hash(hs, key), key, value))
             IN  mapArrayNode_expand(vn.h, vn.n, nd.entries, 1, hs, rz1)
        ELSE IF idx # -1
        THEN SetRes(Alloc(h, [kind |-> "mapArray",
                              entries |-> [nd.entries EXCEPT ![idx + 1] =
                                               [key |-> key, value |-> value]]]), rz1)
        ELSE SetRes(Alloc(h, [kind |-> "mapArray",
                              entries |-> Append(nd.entries,
                                                 [key |-> key, value |-> value])]), rz1)

\* mapArrayNode.set
mapArrayNode_set(h, n, key, value, shift, keyHash, hs, rz) ==
    LET nd  == h[n]
        idx == mapEntries_indexOf(nd.entries, key, hs)
        rz1 == rz \/ idx = -1
    IN  IF idx = -1 /\ Len(nd.entries) >= maxArrayMapSize
        THEN LET vn == Alloc(h, newMapValueNode(Hasher_Hash(hs, key), key, value))
             IN  mapArrayNode_expand(vn.h, vn.n, nd.entries, 1, hs, rz1)
        ELSE IF idx # -1
        THEN SetRes(Alloc(h, [kind |-> "mapArray",
                              entries |-> [nd.entries EXCEPT ![idx + 1] =
                                               [key |-> key, value |-> value]]]), rz1)
        ELSE SetRes(Alloc(h, [kind |-> "mapArray",
                              entries |-> Append(nd.entries,
                                                 [key |-> key, value |-> value])]), rz1)

\* mapBitmapIndexedNode.set that leaves resized as it was for an absent key
mapBitmapIndexedNode_set_noresize(h, n, key, value, shift, keyHash, hs, rz) ==
    LET nd     == h[n]
        frag   == MapFrag(keyHash, shift)
        exists == frag \in nd.bitmap
        rz1    == rz
        idx    == OnesBelow(nd.bitmap, frag)
        nn     == IF exists
                  THEN mapNode_set(h, nd.nodes[idx + 1], key, value,
                                   shift + mapNodeBits, keyHash, hs, rz1)
                  ELSE SetRes(Alloc(h, newMapValueNode(keyHash, key, value)), rz1)
    IN  IF ~exists /\ Len(nd.nodes) > maxBitmapIndexedSize
        THEN LET cv == bitmapToHashArray(nd, 0, 0, NilSlots(mapNodeSize))
             IN  SetRes(Alloc(nn.h, [kind |-> "mapHashArray", count |-> cv.count + 1,
                                     nodes |-> [cv.nodes EXCEPT ![frag] = nn.n]]),
                        nn.resized)
        ELSE IF exists
        THEN SetRes(Alloc(nn.h, [kind |-> "mapBitmap", bitmap |-> nd.bitmap \cup {frag},
                                 nodes |-> [nd.nodes EXCEPT ![idx + 1] = nn.n]]),
                    nn.resized)
        ELSE SetRes(Alloc(nn.h, [kind |-> "mapBitmap", bitmap |-> nd.bitmap \cup {frag},
                                 nodes |-> SeqInsert(nd.nodes, idx, nn.n)]),
                    nn.resized)

\* mapBitmapIndexedNode.set
mapBitmapIndexedNode_set(h, n, key, value, shift, keyHash, hs, rz) ==
    LET nd     == h[n]
        frag   == MapFrag(keyHash, shift)
        exists == frag \in nd.bitmap
        rz1    == rz \/ ~exists
        idx    == OnesBelow(nd.bitmap, frag)
        nn     == IF exists
                  THEN mapNode_set(h, nd.nodes[idx + 1], key, value,
                                   shift + mapNodeBits, keyHash, hs, rz1)
                  ELSE SetRes(Alloc(h, newMapValueNode(keyHash, key, value)), rz1)
    IN  IF ~exists /\ Len(nd.nodes) > maxBitmapIndexedSize
        THEN LET cv == bitmapToHashArray(nd, 0, 0, NilSlots(mapNodeSize))
             IN  SetRes(Alloc(nn.h, [kind |-> "mapHashArray", count |-> cv.count + 1,
                                     nodes |-> [cv.nodes EXCEPT ![frag] = nn.n]]),
                        nn.resized)
        ELSE IF exists
        THEN SetRes(Alloc(nn.h, [kind |-> "mapBitmap", bitmap |-> nd.bitmap \cup {frag},
                                 nodes |-> [nd.nodes EXCEPT ![idx + 1] = nn.n]]),
                    nn.resized)
        ELSE SetRes(Alloc(nn.h, [kind |-> "mapBitmap", bitmap |-> nd.bitmap \cup {frag},
                                 nodes |-> SeqInsert(nd.nodes, idx, nn.n)]),
                    nn.resized)

\* mapHashArrayNode.set that leaves count as it is when it fills an empty slot
mapHashArrayNode_set_nocount(h, n, key, value, shift, keyHash, hs, rz) ==
    LET nd   == h[n]
        idx  == MapFrag(keyHash, shift)
        node == nd.nodes[idx]
        nn   == IF node = Nil
                THEN SetRes(Alloc(h, newMapValueNode(keyHash, key, value)), TRUE)
                ELSE mapNode_set(h, node, key, value, shift + mapNodeBits, keyHash, hs, rz)
    IN  SetRes(Alloc(nn.h, [nd EXCEPT !.nodes[idx] = nn.n]), nn.resized)

\* mapHashArrayNode.set that stores the child in the node itself
mapHashArrayNode_set_inplace(h, n, key, value, shift, keyHash, hs, rz) ==
    LET nd   == h[n]
        idx  == MapFrag(keyHash, shift)
        node == nd.nodes[idx]
        nn   == IF node = Nil
                THEN SetRes(Alloc(h, newMapValueNode(keyHash, key, value)), TRUE)
                ELSE mapNode_set(h, node, key, value, shift + mapNodeBits, keyHash, hs, rz)
    IN  SetRes([h |-> [nn.h EXCEPT ![n] = [nd EXCEPT !.count = IF node = Nil THEN @ + 1 ELSE @,
                                                    !.nodes[idx] = nn.n]],
                n |-> n],
               nn.resized)

\* mapHashArrayNode.set
mapHashArrayNode_set(h, n, key, value, shift, keyHash, hs, rz) ==
    LET nd   == h[n]
        idx  == MapFrag(keyHash, shift)
        node == nd.nodes[idx]
        nn   == IF node = Nil
                THEN SetRes(Alloc(h, newMapValueNode(keyHash, key, value)), TRUE)
                ELSE mapNode_set(h, node, key, value, shift + mapNodeBits, keyHash, hs, rz)
    IN  SetRes(Alloc(nn.h, [nd EXCEPT !.count = IF node = Nil THEN @ + 1 ELSE @,
                                      !.nodes[idx] = nn.n]),
               nn.resized)

\* mapValueNode.set that, for a key of another hash, wraps the new key alone
\* in a branch
mapValueNode_set_dropold(h, n, key, value, shift, keyHash, hs, rz) ==
    LET nd == h[n]
    IN  IF Hasher_Equal(hs, nd.key, key)
        THEN SetRes(Alloc(h, newMapValueNode(nd.keyHash, key, value)), rz)
        ELSE IF nd.keyHash # keyHash
        THEN LET nv == Alloc(h, newMapValueNode(keyHash, key, value))
             IN  SetRes(Alloc(nv.h, [kind |-> "mapBitmap",
                                     bitmap |-> {MapFrag(keyHash, shift)},
                                     nodes |-> <<nv.n>>]), TRUE)
        ELSE SetRes(Alloc(h, [kind |-> "mapCollision", keyHash |-> keyHash,
                              entries |-> <<[key |-> nd.key, value |-> nd.value],
                                            [key |-> key, value |-> value]>>]), TRUE)

\* mapValueNode.set
mapValueNode_set(h, n, key, value, shift, keyHash, hs, rz) ==
    LET nd == h[n]
    IN  IF Hasher_Equal(hs, nd.key, key)
        THEN SetRes(Alloc(h, newMapValueNode(nd.keyHash, key, value)), rz)
        ELSE IF nd.keyHash # keyHash
        THEN SetRes(mergeIntoNode(h, n, shift, keyHash, key, value), TRUE)
        ELSE SetRes(Alloc(h, [kind |-> "mapCollision", keyHash |-> keyHash,
                              entries |-> <<[key |-> nd.key, value |-> nd.value],
                                            [key |-> key, value |-> value]>>]), TRUE)

\* mapHashCollisionNode.set
mapHashCollisionNode_set(h, n, key, value, shift, keyHash, hs, rz) ==
    LET nd  == h[n]
        idx == mapEntries_indexOf(nd.entries, key, hs)
    IN  IF nd.keyHash # keyHash
        THEN SetRes(mergeIntoNode(h, n, shift, keyHash, key, value), TRUE)
        ELSE IF idx = -1
        THEN SetRes(Alloc(h, [kind |-> "mapCollision", keyHash |-> nd.keyHash,
                              entries |-> Append(nd.entries,
                                                 [key |-> key, value |-> value])]), TRUE)
        ELSE SetRes(Alloc(h, [kind |-> "mapCollision", keyHash |-> nd.keyHash,
                              entries |-> [nd.entries EXCEPT ![idx + 1] =
                                               [key |-> key, value |-> value]]]), rz)

\* mapNode.set: dynamic dispatch on the node type
mapNode_set(h, n, key, value, shift, keyHash, hs, rz) ==
    CASE h[n].kind = "mapArray"     -> mapArrayNode_set(h, n, key, value, shift, keyHash, hs, rz)
      [] h[n].kind = "mapBitmap"    -> mapBitmapIndexedNode_set(h, n, key, value, shift, keyHash, hs, rz)
      [] h[n].kind = "mapHashArray" -> mapHashArrayNode_set(h, n, key, value, shift, keyHash, hs, rz)
      [] h[n].kind = "mapValue"     -> mapValueNode_set(h, n, key, value, shift, keyHash, hs, rz)
      [] h[n].kind = "mapCollision" -> mapHashCollisionNode_set(h, n, key, value, shift, keyHash, hs, rz)

\* Map.Set, the choice of the hasher, without the case of a byte slice
Map_resolveHasher_nobytes(hasher, key) ==
    IF hasher # "none" THEN hasher
    ELSE CASE KeyKind(key) = "int" -> "intHasher"
           [] KeyKind(key) = "string" -> "stringHasher"
           [] OTHER -> "panic"

\* Map.Set, the choice of the hasher: the map's own, or the built-in one for
\* the type of the key, or a panic
Map_resolveHasher(hasher, key) ==
    IF hasher # "none" THEN hasher
    ELSE CASE KeyKind(key) = "int" -> "intHasher"
           [] KeyKind(key) = "string" -> "stringHasher"
           [] KeyKind(key) = "[]byte" -> "byteSliceHasher"
           [] OTHER -> "panic"

\* the panics of Map.Set: no hasher for the key, or, in Hash(key) on a map
\* with a root, a key that is not of the type the hasher asserts
Map_Set_panic(h, m, key) ==
    LET hasher == Map_resolveHasher(h[m].hasher, key)
    IN  IF hasher = "panic" THEN "MissingHasher"
        ELSE IF h[m].root # Nil /\ AssertedKind(hasher) \notin {"any", KeyKind(key)}
        THEN "TypeAssertion"
        ELSE "none"

\* Map.Set that resolves the hasher again when the map is empty
Map_Set_reresolve(h, m, key, value) ==
    LET hasher == Map_resolveHasher(IF h[m].root = Nil THEN "none" ELSE h[m].hasher, key)
    IN  IF h[m].root = Nil
        THEN LET an == Alloc(h, [kind |-> "mapArray",
                                 entries |-> <<[key |-> key, value |-> value]>>])
             IN  Alloc(an.h, [kind |-> "Map", size |-> 1, root |-> an.n, hasher |-> hasher])
        ELSE LET sr == mapNode_set(h, h[m].root, key, value, 0,
                                   Hasher_Hash(hasher, key), hasher, FALSE)
             IN  Alloc(sr.h, [kind |-> "Map",
                              size |-> IF sr.resized THEN h[m].size + 1 ELSE h[m].size,
                              root |-> sr.n, hasher |-> hasher])

\* Map.Set
Map_Set(h, m, key, value) ==
    LET hasher == Map_resolveHasher(h[m].hasher, key)
    IN  IF h[m].root = Nil
        THEN LET an == Alloc(h, [kind |-> "mapArray",
                                 entries |-> <<[key |-> key, value |-> value]>>])
             IN  Alloc(an.h, [kind |-> "Map", size |-> 1, root |-> an.n, hasher |-> hasher])
        ELSE LET sr == mapNode_set(h, h[m].root, key, value, 0,
                                   Hasher_Hash(hasher, key), hasher, FALSE)
             IN  Alloc(sr.h, [kind |-> "Map",
                              size |-> IF sr.resized THEN h[m].size + 1 ELSE h[m].size,
                              root |-> sr.n, hasher |-> hasher])

RECURSIVE mapNode_delete(_, _, _, _, _, _)

\* mapArrayNode.delete
mapArrayNode_delete(h, n, key, shift, keyHash, hs) ==
    LET nd  == h[n]
        idx == mapEntries_indexOf(nd.entries, key, hs)
    IN  IF idx = -1 THEN [h |-> h, n |-> n]
        ELSE IF Len(nd.entries) = 1 THEN [h |-> h, n |-> Nil]
        ELSE Alloc(h, [kind |-> "mapArray", entries |-> SeqRemove(nd.entries, idx)])

\* mapBitmapIndexedNode.delete that makes an array node of a root left with
\* one value leaf
mapBitmapIndexedNode_delete_toarray(h, n, key, shift, keyHash, hs) ==
    LET nd   == h[n]
        frag == MapFrag(keyHash, shift)
        idx  == OnesBelow(nd.bitmap, frag)
    IN  IF frag \notin nd.bitmap THEN [h |-> h, n |-> n]
        ELSE LET child == nd.nodes[idx + 1]
                 nc    == mapNode_delete(h, child, key, shift + mapNodeBits, keyHash, hs)
                 rest  == SeqRemove(nd.nodes, idx)
             IN  IF nc.n = child THEN [h |-> h, n |-> n]
                 ELSE IF nc.n = Nil
                 THEN IF Len(nd.nodes) = 1 THEN [h |-> nc.h, n |-> Nil]
                      ELSE IF shift = 0 /\ Len(rest) = 1 /\ nc.h[rest[1]].kind = "mapValue"
                      THEN Alloc(nc.h, [kind |-> "mapArray",
                                        entries |-> <<[key |-> nc.h[rest[1]].key,
                                                       value |-> nc.h[rest[1]].value]>>])
                      ELSE Alloc(nc.h, [kind |-> "mapBitmap",
                                        bitmap |-> nd.bitmap \ {frag},
                                        nodes |-> rest])
                 ELSE Alloc(nc.h, [kind |-> "mapBitmap", bitmap |-> nd.bitmap,
                                   nodes |-> [nd.nodes EXCEPT ![idx + 1] = nc.n]])

\* mapBitmapIndexedNode.delete
mapBitmapIndexedNode_delete(h, n, key, shift, keyHash, hs) ==
    LET nd   == h[n]
        frag == MapFrag(keyHash, shift)
        idx  == OnesBelow(nd.bitmap, frag)
    IN  IF frag \notin nd.bitmap THEN [h |-> h, n |-> n]
        ELSE LET child == nd.nodes[idx + 1]
                 nc    == mapNode_delete(h, child, key, shift + mapNodeBits, keyHash, hs)
             IN  IF nc.n = child THEN [h |-> h, n |-> n]
                 ELSE IF nc.n = Nil
                 THEN IF Len(nd.nodes) = 1 THEN [h |-> nc.h, n |-> Nil]
                      ELSE Alloc(nc.h, [kind |-> "mapBitmap",
                                        bitmap |-> nd.bitmap \ {frag},
                                        nodes |-> SeqRemove(nd.nodes, idx)])
                 ELSE Alloc(nc.h, [kind |-> "mapBitmap", bitmap |-> nd.bitmap,
                                   nodes |-> [nd.nodes EXCEPT ![idx + 1] = nc.n]])

\* mapHashArrayNode.delete whose downgrade keeps the child of the emptied slot
mapHashArrayNode_delete_keepslot(h, n, key, shift, keyHash, hs) ==
    LET nd   == h[n]
        idx  == MapFrag(keyHash, shift)
        node == nd.nodes[idx]
    IN  IF node = Nil THEN [h |-> h, n |-> n]
        ELSE LET nn == mapNode_delete(h, node, key, shift + mapNodeBits, keyHash, hs)
             IN  IF nn.n = node THEN [h |-> h, n |-> n]
                 ELSE IF nn.n = Nil /\ nd.count <= maxBitmapIndexedSize
                 THEN Alloc(nn.h, hashArrayToBitmap(nd, mapNodeSize, 0, {}, <<>>))
                 ELSE Alloc(nn.h, [nd EXCEPT !.nodes[idx] = nn.n,
                                             !.count = IF nn.n = Nil THEN @ - 1 ELSE @])

\* mapHashArrayNode.delete
mapHashArrayNode_delete(h, n, key, shift, keyHash, hs) ==
    LET nd   == h[n]
        idx  == MapFrag(keyHash, shift)
        node == nd.nodes[idx]
    IN  IF node = Nil THEN [h |-> h, n |-> n]
        ELSE LET nn == mapNode_delete(h, node, key, shift + mapNodeBits, keyHash, hs)
             IN  IF nn.n = node THEN [h |-> h, n |-> n]
                 ELSE IF nn.n = Nil /\ nd.count <= maxBitmapIndexedSize
                 THEN Alloc(nn.h, hashArrayToBitmap(nd, idx, 0, {}, <<>>))
                 ELSE Alloc(nn.h, [nd EXCEPT !.nodes[idx] = nn.n,
                                             !.count = IF nn.n = Nil THEN @ - 1 ELSE @])

\* mapValueNode.delete
mapValueNode_delete(h, n, key, shift, keyHash, hs) ==
    IF ~Hasher_Equal(hs, h[n].key, key) THEN [h |-> h, n |-> n]
    ELSE [h |-> h, n |-> Nil]

\* mapHashCollisionNode.delete that keeps the deleted one of two entries
mapHashCollisionNode_delete_keepdeleted(h, n, key, shift, keyHash, hs) ==
    LET nd  == h[n]
        idx == mapEntries_indexOf(nd.entries, key, hs)
        oth == nd.entries[idx + 1]
    IN  IF idx = -1 THEN [h |-> h, n |-> n]
        ELSE IF Len(nd.entries) = 2
        THEN Alloc(h, [kind |-> "mapValue", keyHash |-> nd.keyHash,
                       key |-> oth.key, value |-> oth.value])
        ELSE Alloc(h, [kind |-> "mapCollision", keyHash |-> nd.keyHash,
                       entries |-> SeqRemove(nd.entries, idx)])

\* mapHashCollisionNode.delete (idx^1 is the other one of two entries)
mapHashCollisionNode_delete(h, n, key, shift, keyHash, hs) ==
    LET nd  == h[n]
        idx == mapEntries_indexOf(nd.entries, key, hs)
        oth == nd.entries[(1 - idx) + 1]
    IN  IF idx = -1 THEN [h |-> h, n |-> n]
        ELSE IF Len(nd.entries) = 2
        THEN Alloc(h, [kind |-> "mapValue", keyHash |-> nd.keyHash,
                       key |-> oth.key, value |-> oth.value])
        ELSE Alloc(h, [kind |-> "mapCollision", keyHash |-> nd.keyHash,
                       entries |-> SeqRemove(nd.entries, idx)])

\* mapNode.delete: dynamic dispatch on the node type
mapNode_delete(h, n, key, shift, keyHash, hs) ==
    CASE h[n].kind = "mapArray"     -> mapArrayNode_delete(h, n, key, shift, keyHash, hs)
      [] h[n].kind = "mapBitmap"    -> mapBitmapIndexedNode_delete(h, n, key, shift, keyHash, hs)
      [] h[n].kind = "mapHashArray" -> mapHashArrayNode_delete(h, n, key, shift, keyHash, hs)
      [] h[n].kind = "mapValue"     -> mapValueNode_delete(h, n, key, shift, keyHash, hs)
      [] h[n].kind = "mapCollision" -> mapHashCollisionNode_delete(h, n, key, shift, keyHash, hs)

\* Map.Delete that does not compare the new root with the old one
Map_Delete_alwaysnew(h, m, key) ==
    IF h[m].root = Nil THEN [h |-> h, n |-> m]
    ELSE LET dr == mapNode_delete(h, h[m].root, key, 0,
                                  Hasher_Hash(h[m].hasher, key), h[m].hasher)
         IN  Alloc(dr.h, [kind |-> "Map", size |-> h[m].size - 1,
                          root |-> dr.n, hasher |-> h[m].hasher])

\* Map.Delete
Map_Delete(h, m, key) ==
    IF h[m].root = Nil THEN [h |-> h, n |-> m]
    ELSE LET dr == mapNode_delete(h, h[m].root, key, 0,
                                  Hasher_Hash(h[m].hasher, key), h[m].hasher)
         IN  IF dr.n = h[m].root THEN [h |-> h, n |-> m]
             ELSE Alloc(dr.h, [kind |-> "Map", size |-> h[m].size - 1,
                               root |-> dr.n, hasher |-> h[m].hasher])

----------------------------------------------------------------------------
(* Comparer *)

\* intComparer.Compare, and a client's Comparer; stringComparer.Compare and
\* byteSliceComparer.Compare on keys of one byte
Comparer_Compare(c, a, b) ==
    IF c \in {"stringComparer", "byteSliceComparer"}
    THEN IF KeyByte(a) < KeyByte(b) THEN -1 ELSE IF KeyByte(a) > KeyByte(b) THEN 1 ELSE 0
    ELSE IF a < b THEN -1 ELSE IF a > b THEN 1 ELSE 0

----------------------------------------------------------------------------
(* SortedMap *)

sortedMapNodeSize == 32

\* NewSortedMap(comparer)
NewSortedMap(h, comparer) ==
    Alloc(h, [kind |-> "SortedMap", size |-> 0, root |-> Nil, comparer |-> comparer])

\* SortedMap.Len
SortedMap_Len(h, m) == h[m].size

\* sortedMapBranchNode.minKey / sortedMapLeafNode.minKey
RECURSIVE sortedMapNode_minKey(_, _)
sortedMapNode_minKey(h, n) ==
    IF h[n].kind = "smLeaf" THEN h[n].entries[1].key
    ELSE sortedMapNode_minKey(h, h[n].elems[1].node)

\* sort.Search over the entries of a leaf with the predicate of
\* sortedMapLeafNode.indexOf (key of entry >= key): binary search in [i, j)
RECURSIVE leafSearch(_, _, _, _, _)
leafSearch(entries, key, c, i, j) ==
    IF i < j
    THEN LET m == (i + j) \div 2
         IN  IF ~(Comparer_Compare(c, entries[m + 1].key, key) # -1)
             THEN leafSearch(entries, key, c, m + 1, j)
             ELSE leafSearch(entries, key, c, i, m)
    ELSE i

\* sort.Search over the elements of a branch with the predicate of
\* sortedMapBranchNode.indexOf (separator > key): binary search in [i, j)
RECURSIVE branchSearch(_, _, _, _, _)
branchSearch(elems, key, c, i, j) ==
    IF i < j
    THEN LET m == (i + j) \div 2
         IN  IF ~(Comparer_Compare(c, elems[m + 1].key, key) = 1)
             THEN branchSearch(elems, key, c, m + 1, j)
             ELSE branchSearch(elems, key, c, i, m)
    ELSE i

\* sortedMapLeafNode.indexOf
sortedMapLeafNode_indexOf(h, n, key, c) ==
    leafSearch(h[n].entries, key, c, 0, Len(h[n].entries))

\* sortedMapBranchNode.indexOf
sortedMapBranchNode_indexOf(h, n, key, c) ==
    LET idx == branchSearch(h[n].elems, key, c, 0, Len(h[n].elems))
    IN  IF idx > 0 THEN idx - 1 ELSE 0

\* sortedMapNode.indexOf
sortedMapNode_indexOf(h, n, key, c) ==
    IF h[n].kind = "smLeaf" THEN sortedMapLeafNode_indexOf(h, n, key, c)
    ELSE sortedMapBranchNode_indexOf(h, n, key, c)

\* sortedMapBranchNode.get / sortedMapLeafNode.get
RECURSIVE sortedMapNode_get(_, _, _, _)
sortedMapNode_get(h, n, key, c) ==
    IF h[n].kind = "smLeaf"
    THEN LET idx == sortedMapLeafNode_indexOf(h, n, key, c)
         IN  IF idx = Len(h[n].entries)
                \/ Comparer_Compare(c, h[n].entries[idx + 1].key, key) # 0
             THEN NotFound
             ELSE Found(h[n].entries[idx + 1].value)
    ELSE sortedMapNode_get(h, h[n].elems[sortedMapBranchNode_indexOf(h, n, key, c) + 1].node,
                           key, c)

\* SortedMap.Get
SortedMap_Get(h, m, key) ==
    IF h[m].root = Nil THEN NotFound
    ELSE sortedMapNode_get(h, h[m].root, key, h[m].comparer)

\* a branch element for child n: its separator is the child's minimum key
branchElem(h, n) == [key |-> sortedMapNode_minKey(h, n), node |-> n]

\* newSortedMapBranchNode that puts the first child in a branch of its own
newSortedMapBranchNode_nested(h, c1, c2) ==
    LET inner == Alloc(h, [kind |-> "smBranch", elems |-> <<branchElem(h, c1)>>])
    IN  Alloc(inner.h, [kind |-> "smBranch",
                        elems |-> <<branchElem(inner.h, inner.n), branchElem(inner.h, c2)>>])

\* newSortedMapBranchNode(children...) for two children
newSortedMapBranchNode(h, c1, c2) ==
    Alloc(h, [kind |-> "smBranch", elems |-> <<branchElem(h, c1), branchElem(h, c2)>>])

\* a set returns the heap, the node, the split node (or nil) and resized
SMSetRes(r, split, rz) == [h |-> r.h, n |-> r.n, split |-> split, resized |-> rz]

\* sortedMapLeafNode.set whose split node starts one entry late
sortedMapLeafNode_set_losesplit(h, n, key, value, c, rz) ==
    LET ents  == h[n].entries
        idx   == sortedMapLeafNode_indexOf(h, n, key, c)
        match == idx < Len(ents) /\ Comparer_Compare(c, ents[idx + 1].key, key) = 0
        newEntries == IF match
                      THEN [ents EXCEPT ![idx + 1] = [key |-> key, value |-> value]]
                      ELSE SeqInsert(ents, idx, [key |-> key, value |-> value])
        rz1   == rz \/ ~match
        half  == Len(newEntries) \div 2
    IN  IF Len(newEntries) > sortedMapNodeSize
        THEN LET ln == Alloc(h, [kind |-> "smLeaf", entries |-> SubSeq(newEntries, 1, half)])
                 sn == Alloc(ln.h, [kind |-> "smLeaf",
                                    entries |-> SubSeq(newEntries, half + 2, Len(newEntries))])
             IN  [h |-> sn.h, n |-> ln.n, split |-> sn.n, resized |-> rz1]
        ELSE SMSetRes(Alloc(h, [kind |-> "smLeaf", entries |-> newEntries]), Nil, rz1)

\* sortedMapLeafNode.set that splits after the larger half
sortedMapLeafNode_set_unevensplit(h, n, key, value, c, rz) ==
    LET ents  == h[n].entries
        idx   == sortedMapLeafNode_indexOf(h, n, key, c)
        match == idx < Len(ents) /\ Comparer_Compare(c, ents[idx + 1].key, key) = 0
        newEntries == IF match
                      THEN [ents EXCEPT ![idx + 1] = [key |-> key, value |-> value]]
                      ELSE SeqInsert(ents, idx, [key |-> key, value |-> value])
        rz1   == rz \/ ~match
        half  == (Len(newEntries) + 1) \div 2
    IN  IF Len(newEntries) > sortedMapNodeSize
        THEN LET ln == Alloc(h, [kind |-> "smLeaf", entries |-> SubSeq(newEntries, 1, half)])
                 sn == Alloc(ln.h, [kind |-> "smLeaf",
                                    entries |-> SubSeq(newEntries, half + 1, Len(newEntries))])
             IN  [h |-> sn.h, n |-> ln.n, split |-> sn.n, resized |-> rz1]
        ELSE SMSetRes(Alloc(h, [kind |-> "smLeaf", entries |-> newEntries]), Nil, rz1)

\* sortedMapLeafNode.set that splits one entry late
sortedMapLeafNode_set_latesplit(h, n, key, value, c, rz) ==
    LET ents  == h[n].entries
        idx   == sortedMapLeafNode_indexOf(h, n, key, c)
        match == idx < Len(ents) /\ Comparer_Compare(c, ents[idx + 1].key, key) = 0
        newEntries == IF match
                      THEN [ents EXCEPT ![idx + 1] = [key |-> key, value |-> value]]
                      ELSE SeqInsert(ents, idx, [key |-> key, value |-> value])
        rz1   == rz \/ ~match
        half  == Len(newEntries) \div 2
    IN  IF Len(newEntries) > sortedMapNodeSize + 1
        THEN LET ln == Alloc(h, [kind |-> "smLeaf", entries |-> SubSeq(newEntries, 1, half)])
                 sn == Alloc(ln.h, [kind |-> "smLeaf",
                                    entries |-> SubSeq(newEntries, half + 1, Len(newEntries))])
             IN  [h |-> sn.h, n |-> ln.n, split |-> sn.n, resized |-> rz1]
        ELSE SMSetRes(Alloc(h, [kind |-> "smLeaf", entries |-> newEntries]), Nil, rz1)

\* sortedMapLeafNode.set
sortedMapLeafNode_set(h, n, key, value, c, rz) ==
    LET ents  == h[n].entries
        idx   == sortedMapLeafNode_indexOf(h, n, key, c)
        match == idx < Len(ents) /\ Comparer_Compare(c, ents[idx + 1].key, key) = 0
        newEntries == IF match
                      THEN [ents EXCEPT ![idx + 1] = [key |-> key, value |-> value]]
                      ELSE SeqInsert(ents, idx, [key |-> key, value |-> value])
        rz1   == rz \/ ~match
        half  == Len(newEntries) \div 2
    IN  IF Len(newEntries) > sortedMapNodeSize
        THEN LET ln == Alloc(h, [kind |-> "smLeaf", entries |-> SubSeq(newEntries, 1, half)])
                 sn == Alloc(ln.h, [kind |-> "smLeaf",
                                    entries |-> SubSeq(newEntries, half + 1, Len(newEntries))])
             IN  [h |-> sn.h, n |-> ln.n, split |-> sn.n, resized |-> rz1]
        ELSE SMSetRes(Alloc(h, [kind |-> "smLeaf", entries |-> newEntries]), Nil, rz1)

\* sortedMapBranchNode.set / sortedMapLeafNode.set
RECURSIVE sortedMapNode_set(_, _, _, _, _, _)
sortedMapNode_set(h, n, key, value, c, rz) ==
    IF h[n].kind = "smLeaf" THEN sortedMapLeafNode_set(h, n, key, value, c, rz)
    ELSE LET elems == h[n].elems
             idx   == sortedMapBranchNode_indexOf(h, n, key, c)
             cr    == sortedMapNode_set(h, elems[idx + 1].node, key, value, c, rz)
             other == IF cr.split = Nil
                      THEN [elems EXCEPT ![idx + 1] = branchElem(cr.h, cr.n)]
                      ELSE SubSeq(elems, 1, idx)
                             \o <<branchElem(cr.h, cr.n), branchElem(cr.h, cr.split)>>
                             \o SubSeq(elems, idx + 2, Len(elems))
             splitIdx == Len(other) \div 2
         IN  IF Len(other) > sortedMapNodeSize
             THEN LET bn == Alloc(cr.h, [kind |-> "smBranch",
                                         elems |-> SubSeq(other, 1, splitIdx)])
                      sn == Alloc(bn.h, [kind |-> "smBranch",
                                         elems |-> SubSeq(other, splitIdx + 1, Len(other))])
                  IN  [h |-> sn.h, n |-> bn.n, split |-> sn.n, resized |-> cr.resized]
             ELSE SMSetRes(Alloc(cr.h, [kind |-> "smBranch", elems |-> other]),
                           Nil, cr.resized)

\* SortedMap.Set, the choice of the comparer: the map's own, or the built-in
\* one for the type of the key, or a panic
SortedMap_resolveComparer(comparer, key) ==
    IF comparer # "none" THEN comparer
    ELSE CASE KeyKind(key) = "int" -> "intComparer"
           [] KeyKind(key) = "string" -> "stringComparer"
           [] KeyKind(key) = "[]byte" -> "byteSliceComparer"
           [] OTHER -> "panic"

\* the panics of SortedMap.Set: no comparer for the key, or, in Compare on a
\* map with a root, a key that is not of the type the comparer asserts
SortedMap_Set_panic(h, m, key) ==
    LET comparer == SortedMap_resolveComparer(h[m].comparer, key)
    IN  IF comparer = "panic" THEN "MissingComparer"
        ELSE IF h[m].root # Nil /\ AssertedKind(comparer) \notin {"any", KeyKind(key)}
        THEN "TypeAssertion"
        ELSE "none"

\* SortedMap.Set
SortedMap_Set(h, m, key, value) ==
    LET comparer == SortedMap_resolveComparer(h[m].comparer, key)
    IN  IF h[m].root = Nil
        THEN LET lf == Alloc(h, [kind |-> "smLeaf",
                                 entries |-> <<[key |-> key, value |-> value]>>])
             IN  Alloc(lf.h, [kind |-> "SortedMap", size |-> 1, root |-> lf.n,
                              comparer |-> comparer])
        ELSE LET sr == sortedMapNode_set(h, h[m].root, key, value, comparer, FALSE)
                 nr == IF sr.split # Nil THEN newSortedMapBranchNode(sr.h, sr.n, sr.split)
                                         ELSE [h |-> sr.h, n |-> sr.n]
             IN  Alloc(nr.h, [kind |-> "SortedMap",
                              size |-> IF sr.resized THEN h[m].size + 1 ELSE h[m].size,
                              root |-> nr.n, comparer |-> comparer])

\* sortedMapLeafNode.delete
sortedMapLeafNode_delete(h, n, key, c) ==
    LET ents == h[n].entries
        idx  == sortedMapLeafNode_indexOf(h, n, key, c)
    IN  IF idx >= Len(ents) \/ Comparer_Compare(c, ents[idx + 1].key, key) # 0
        THEN [h |-> h, n |-> n]
        ELSE IF Len(ents) = 1 THEN [h |-> h, n |-> Nil]
        ELSE Alloc(h, [kind |-> "smLeaf", entries |-> SeqRemove(ents, idx)])

\* sortedMapBranchNode.delete / sortedMapLeafNode.delete
RECURSIVE sortedMapNode_delete(_, _, _, _)

\* sortedMapBranchNode.delete that keeps the separator of the updated child
sortedMapNode_delete_stalekey(h, n, key, c) ==
    IF h[n].kind = "smLeaf" THEN sortedMapLeafNode_delete(h, n, key, c)
    ELSE LET elems == h[n].elems
             idx   == sortedMapBranchNode_indexOf(h, n, key, c)
             nn    == sortedMapNode_delete(h, elems[idx + 1].node, key, c)
         IN  IF nn.n = elems[idx + 1].node THEN [h |-> h, n |-> n]
             ELSE IF nn.n = Nil
             THEN IF Len(elems) = 1 THEN [h |-> nn.h, n |-> Nil]
                  ELSE Alloc(nn.h, [kind |-> "smBranch", elems |-> SeqRemove(elems, idx)])
             ELSE Alloc(nn.h, [kind |-> "smBranch",
                               elems |-> [elems EXCEPT ![idx + 1].node = nn.n]])

sortedMapNode_delete(h, n, key, c) ==
    IF h[n].kind = "smLeaf" THEN sortedMapLeafNode_delete(h, n, key, c)
    ELSE LET elems == h[n].elems
             idx   == sortedMapBranchNode_indexOf(h, n, key, c)
             nn    == sortedMapNode_delete(h, elems[idx + 1].node, key, c)
         IN  IF nn.n = elems[idx + 1].node THEN [h |-> h, n |-> n]
             ELSE IF nn.n = Nil
             THEN IF Len(elems) = 1 THEN [h |-> nn.h, n |-> Nil]
                  ELSE Alloc(nn.h, [kind |-> "smBranch", elems |-> SeqRemove(elems, idx)])
             ELSE Alloc(nn.h, [kind |-> "smBranch",
                               elems |-> [elems EXCEPT ![idx + 1] = branchElem(nn.h, nn.n)]])

\* SortedMap.Delete
SortedMap_Delete(h, m, key) ==
    IF h[m].root = Nil THEN [h |-> h, n |-> m]
    ELSE LET dr == sortedMapNode_delete(h, h[m].root, key, h[m].comparer)
         IN  IF dr.n = h[m].root THEN [h |-> h, n |-> m]
             ELSE Alloc(dr.h, [kind |-> "SortedMap", size |-> h[m].size - 1,
                               root |-> dr.n, comparer |-> h[m].comparer])

----------------------------------------------------------------------------
(* SortedMapIterator: a mutable object with a stack of 32 (node, index) *)

itrStackSize == 32

\* the zero value of sortedMapIteratorElem
ZeroElem == [node |-> Nil, index |-> 0]

\* SortedMapIterator.Done
SMItr_Done(it) == it.depth = -1

\* SortedMapIterator.first
RECURSIVE SMItr_first(_, _)
SMItr_first(h, it) ==
    LET d    == it.depth
        node == it.stack[d].node
        st   == [it.stack EXCEPT ![d].index = 0]
    IN  IF h[node].kind = "smBranch"
        THEN SMItr_first(h, [it EXCEPT
                 !.stack = [st EXCEPT ![d + 1] = [node |-> h[node].elems[1].node, index |-> 0]],
                 !.depth = d + 1])
        ELSE [it EXCEPT !.stack = st]

\* SortedMapIterator.last
RECURSIVE SMItr_last(_, _)
SMItr_last(h, it) ==
    LET d    == it.depth
        node == it.stack[d].node
    IN  IF h[node].kind = "smBranch"
        THEN LET ix == Len(h[node].elems) - 1
             IN  SMItr_last(h, [it EXCEPT
                     !.stack = [it.stack EXCEPT
                                   ![d].index = ix,
                                   ![d + 1] = [node |-> h[node].elems[ix + 1].node,
                                               index |-> 0]],
                     !.depth = d + 1])
        ELSE [it EXCEPT !.stack[d].index = Len(h[node].entries) - 1]

\* SortedMapIterator.next
RECURSIVE SMItr_next(_, _)
\* SortedMapIterator.next that leaves a leaf one entry early
SMItr_next_skiplast(h, it) ==
    IF ~(it.depth >= 0) THEN it
    ELSE LET d    == it.depth
             elem == it.stack[d]
         IN  IF h[elem.node].kind = "smLeaf"
             THEN IF elem.index < Len(h[elem.node].entries) - 2
                  THEN [it EXCEPT !.stack[d].index = elem.index + 1]
                  ELSE SMItr_next(h, [it EXCEPT !.depth = d - 1])
             ELSE IF elem.index < Len(h[elem.node].elems) - 1
                  THEN SMItr_first(h, [it EXCEPT
                           !.stack = [it.stack EXCEPT
                                         ![d].index = elem.index + 1,
                                         ![d + 1].node = h[elem.node].elems[elem.index + 2].node],
                           !.depth = d + 1])
                  ELSE SMItr_next(h, [it EXCEPT !.depth = d - 1])

\* SortedMapIterator.next: the loop that pops the stack
SMItr_next(h, it) ==
    IF ~(it.depth >= 0) THEN it
    ELSE LET d    == it.depth
             elem == it.stack[d]
         IN  IF h[elem.node].kind = "smLeaf"
             THEN IF elem.index < Len(h[elem.node].entries) - 1
                  THEN [it EXCEPT !.stack[d].index = elem.index + 1]
                  ELSE SMItr_next(h, [it EXCEPT !.depth = d - 1])
             ELSE IF elem.index < Len(h[elem.node].elems) - 1
                  THEN SMItr_first(h, [it EXCEPT
                           !.stack = [it.stack EXCEPT
                                         ![d].index = elem.index + 1,
                                         ![d + 1].node = h[elem.node].elems[elem.index + 2].node],
                           !.depth = d + 1])
                  ELSE SMItr_next(h, [it EXCEPT !.depth = d - 1])

\* SortedMapIterator.seek
RECURSIVE SMItr_seek(_, _, _)
\* SortedMapIterator.seek that marks done at the end of a leaf
SMItr_seek_noadvance(h, it, key) ==
    LET d    == it.depth
        node == it.stack[d].node
        ix   == sortedMapNode_indexOf(h, node, key, h[it.m].comparer)
        st   == [it.stack EXCEPT ![d].index = ix]
    IN  IF h[node].kind = "smBranch"
        THEN SMItr_seek(h, [it EXCEPT
                 !.stack = [st EXCEPT ![d + 1] = [node |-> h[node].elems[ix + 1].node,
                                                  index |-> 0]],
                 !.depth = d + 1], key)
        ELSE IF ix = Len(h[node].entries)
             THEN [it EXCEPT !.stack = st, !.depth = -1]
             ELSE [it EXCEPT !.stack = st]

\* SortedMapIterator.seek: the loop that descends to a leaf
SMItr_seek(h, it, key) ==
    LET d    == it.depth
        node == it.stack[d].node
        ix   == sortedMapNode_indexOf(h, node, key, h[it.m].comparer)
        st   == [it.stack EXCEPT ![d].index = ix]
    IN  IF h[node].kind = "smBranch"
        THEN SMItr_seek(h, [it EXCEPT
                 !.stack = [st EXCEPT ![d + 1] = [node |-> h[node].elems[ix + 1].node,
                                                  index |-> 0]],
                 !.depth = d + 1], key)
        ELSE IF ix = Len(h[node].entries)
             THEN SMItr_next(h, [it EXCEPT !.stack = st])
             ELSE [it EXCEPT !.stack = st]

\* SortedMapIterator.First
SMItr_First(h, it) ==
    IF h[it.m].root = Nil THEN [it EXCEPT !.depth = -1]
    ELSE SMItr_first(h, [it EXCEPT !.stack[0] = [node |-> h[it.m].root, index |-> 0],
                                   !.depth = 0])

\* SortedMapIterator.Last
SMItr_Last(h, it) ==
    IF h[it.m].root = Nil THEN [it EXCEPT !.depth = -1]
    ELSE SMItr_last(h, [it EXCEPT !.stack[0] = [node |-> h[it.m].root, index |-> 0],
                                  !.depth = 0])

\* SortedMapIterator.Seek
SMItr_Seek(h, it, key) ==
    IF h[it.m].root = Nil THEN [it EXCEPT !.depth = -1]
    ELSE SMItr_seek(h, [it EXCEPT !.stack[0] = [node |-> h[it.m].root, index |-> 0],
                                  !.depth = 0], key)

\* SortedMap.Iterator
SortedMap_Iterator(h, m) ==
    SMItr_First(h, [kind |-> "smItr", m |-> m, depth |-> 0,
                    stack |-> Slots([i \in 0..(itrStackSize - 1) |-> ZeroElem])])

\* SortedMapIterator.Next: the pair returned and the iterator after the call
SMItr_Next(h, it) ==
    IF SMItr_Done(it) THEN [key |-> Nil, value |-> Nil, it |-> it]
    ELSE LET elem  == it.stack[it.depth]
             entry == h[elem.node].entries[elem.index + 1]
         IN  [key |-> entry.key, value |-> entry.value, it |-> SMItr_next(h, it)]

\* SortedMapIterator.prev
RECURSIVE SMItr_prev(_, _)
\* SortedMapIterator.prev that goes to the first entry below the branch
\* element it steps to
RECURSIVE SMItr_prev_first(_, _)
SMItr_prev_first(h, it) ==
    IF ~(it.depth >= 0) THEN it
    ELSE LET d    == it.depth
             elem == it.stack[d]
         IN  IF h[elem.node].kind = "smLeaf"
             THEN IF elem.index > 0
                  THEN [it EXCEPT !.stack[d].index = elem.index - 1]
                  ELSE SMItr_prev_first(h, [it EXCEPT !.depth = d - 1])
             ELSE IF elem.index > 0
                  THEN SMItr_first(h, [it EXCEPT
                           !.stack = [it.stack EXCEPT
                                         ![d].index = elem.index - 1,
                                         ![d + 1].node = h[elem.node].elems[elem.index].node],
                           !.depth = d + 1])
                  ELSE SMItr_prev_first(h, [it EXCEPT !.depth = d - 1])

\* SortedMapIterator.prev: the loop that pops the stack
SMItr_prev(h, it) ==
    IF ~(it.depth >= 0) THEN it
    ELSE LET d    == it.depth
             elem == it.stack[d]
         IN  IF h[elem.node].kind = "smLeaf"
             THEN IF elem.index > 0
                  THEN [it EXCEPT !.stack[d].index = elem.index - 1]
                  ELSE SMItr_prev(h, [it EXCEPT !.depth = d - 1])
             ELSE IF elem.index > 0
                  THEN SMItr_last(h, [it EXCEPT
                           !.stack = [it.stack EXCEPT
                                         ![d].index = elem.index - 1,
                                         ![d + 1].node = h[elem.node].elems[elem.index].node],
                           !.depth = d + 1])
                  ELSE SMItr_prev(h, [it EXCEPT !.depth = d - 1])

\* SortedMapIterator.Prev that moves before it reads
SMItr_Prev_movefirst(h, it) ==
    IF SMItr_Done(it) THEN [key |-> Nil, value |-> Nil, it |-> it]
    ELSE LET it2   == SMItr_prev(h, it)
             elem  == it2.stack[it2.depth]
             entry == h[elem.node].entries[elem.index + 1]
         IN  IF SMItr_Done(it2) THEN [key |-> Nil, value |-> Nil, it |-> it2]
             ELSE [key |-> entry.key, value |-> entry.value, it |-> it2]

\* SortedMapIterator.Prev: the pair returned and the iterator after the call
SMItr_Prev(h, it) ==
    IF SMItr_Done(it) THEN [key |-> Nil, value |-> Nil, it |-> it]
    ELSE LET elem  == it.stack[it.depth]
             entry == h[elem.node].entries[elem.index + 1]
         IN  [key |-> entry.key, value |-> entry.value, it |-> SMItr_prev(h, it)]

----------------------------------------------------------------------------
(* MapIterator: a mutable object with a stack of 32 (node, index) *)

\* MapIterator.Done
MapItr_Done(it) == it.depth = -1

\* the loop over the children of a mapHashArrayNode in MapIterator.first and
\* MapIterator.next: the first index from i on with a child, 32 if none
hashArray_nextChild(nd, i) ==
    LET hit == {j \in i..(mapNodeSize - 1) : nd.nodes[j] # Nil}
    IN  IF hit = {} THEN mapNodeSize ELSE CHOOSE j \in hit : \A k \in hit : j <= k

\* MapIterator.first
RECURSIVE MapItr_first(_, _)
\* MapIterator.first that starts a bitmap-indexed branch at its last child
MapItr_first_lastchild(h, it) ==
    LET d  == it.depth
        nd == h[it.stack[d].node]
    IN  CASE nd.kind = "mapBitmap" ->
               MapItr_first(h, [it EXCEPT
                   !.stack = [it.stack EXCEPT ![d].index = Len(nd.nodes) - 1,
                                              ![d + 1].node = nd.nodes[Len(nd.nodes)]],
                   !.depth = d + 1])
          [] nd.kind = "mapHashArray" ->
               LET i == hashArray_nextChild(nd, 0)
               IN  IF i < mapNodeSize
                   THEN MapItr_first(h, [it EXCEPT
                            !.stack = [it.stack EXCEPT ![d].index = i,
                                                       ![d + 1].node = nd.nodes[i]],
                            !.depth = d + 1])
                   ELSE MapItr_first(h, [it EXCEPT !.depth = d + 1])
          [] OTHER -> [it EXCEPT !.stack[d].index = 0]

MapItr_first(h, it) ==
    LET d  == it.depth
        nd == h[it.stack[d].node]
    IN  CASE nd.kind = "mapBitmap" ->
               MapItr_first(h, [it EXCEPT
                   !.stack = [it.stack EXCEPT ![d].index = 0,
                                              ![d + 1].node = nd.nodes[1]],
                   !.depth = d + 1])
          [] nd.kind = "mapHashArray" ->
               LET i == hashArray_nextChild(nd, 0)
               IN  IF i < mapNodeSize
                   THEN MapItr_first(h, [it EXCEPT
                            !.stack = [it.stack EXCEPT ![d].index = i,
                                                       ![d + 1].node = nd.nodes[i]],
                            !.depth = d + 1])
                   ELSE MapItr_first(h, [it EXCEPT !.depth = d + 1])
          [] OTHER -> [it EXCEPT !.stack[d].index = 0]

\* MapIterator.next
RECURSIVE MapItr_next(_, _)
\* MapIterator.next that leaves a collision node after its first entry
MapItr_next_onecollision(h, it) ==
    IF ~(it.depth >= 0) THEN it
    ELSE LET d    == it.depth
             elem == it.stack[d]
             nd   == h[elem.node]
             up   == [it EXCEPT !.depth = d - 1]
         IN  CASE nd.kind = "mapArray" ->
                    IF elem.index < Len(nd.entries) - 1
                    THEN [it EXCEPT !.stack[d].index = elem.index + 1]
                    ELSE MapItr_next(h, up)
               [] nd.kind = "mapBitmap" ->
                    IF elem.index < Len(nd.nodes) - 1
                    THEN MapItr_first(h, [it EXCEPT
                             !.stack = [it.stack EXCEPT
                                           ![d].index = elem.index + 1,
                                           ![d + 1].node = nd.nodes[elem.index + 2]],
                             !.depth = d + 1])
                    ELSE MapItr_next(h, up)
               [] nd.kind = "mapHashArray" ->
                    LET i == hashArray_nextChild(nd, elem.index + 1)
                    IN  IF i < mapNodeSize
                        THEN MapItr_first(h, [it EXCEPT
                                 !.stack = [it.stack EXCEPT ![d].index = i,
                                                            ![d + 1].node = nd.nodes[i]],
                                 !.depth = d + 1])
                        ELSE MapItr_next(h, up)
               [] nd.kind = "mapValue" -> MapItr_next(h, up)
               [] nd.kind = "mapCollision" -> MapItr_next(h, up)

\* MapIterator.next: the loop that pops the stack
MapItr_next(h, it) ==
    IF ~(it.depth >= 0) THEN it
    ELSE LET d    == it.depth
             elem == it.stack[d]
             nd   == h[elem.node]
             up   == [it EXCEPT !.depth = d - 1]
         IN  CASE nd.kind = "mapArray" ->
                    IF elem.index < Len(nd.entries) - 1
                    THEN [it EXCEPT !.stack[d].index = elem.index + 1]
                    ELSE MapItr_next(h, up)
               [] nd.kind = "mapBitmap" ->
                    IF elem.index < Len(nd.nodes) - 1
                    THEN MapItr_first(h, [it EXCEPT
                             !.stack = [it.stack EXCEPT
                                           ![d].index = elem.index + 1,
                                           ![d + 1].node = nd.nodes[elem.index + 2]],
                             !.depth = d + 1])
                    ELSE MapItr_next(h, up)
               [] nd.kind = "mapHashArray" ->
                    LET i == hashArray_nextChild(nd, elem.index + 1)
                    IN  IF i < mapNodeSize
                        THEN MapItr_first(h, [it EXCEPT
                                 !.stack = [it.stack EXCEPT ![d].index = i,
                                                            ![d + 1].node = nd.nodes[i]],
                                 !.depth = d + 1])
                        ELSE MapItr_next(h, up)
               [] nd.kind = "mapValue" -> MapItr_next(h, up)
               [] nd.kind = "mapCollision" ->
                    IF elem.index < Len(nd.entries) - 1
                    THEN [it EXCEPT !.stack[d].index = elem.index + 1]
                    ELSE MapItr_next(h, up)

\* MapIterator.First
MapItr_First(h, it) ==
    IF h[it.m].root = Nil THEN [it EXCEPT !.depth = -1]
    ELSE MapItr_first(h, [it EXCEPT !.stack[0] = [node |-> h[it.m].root, index |-> 0],
                                    !.depth = 0])

\* Map.Iterator
Map_Iterator(h, m) ==
    MapItr_First(h, [kind |-> "mapItr", m |-> m, depth |-> 0,
                     stack |-> Slots([i \in 0..(itrStackSize - 1) |-> ZeroElem])])

\* MapIterator.Next: the pair returned and the iterator after the call
MapItr_Next(h, it) ==
    IF MapItr_Done(it) THEN [key |-> Nil, value |-> Nil, it |-> it]
    ELSE LET elem  == it.stack[it.depth]
             nd    == h[elem.node]
             entry == IF nd.kind = "mapValue" THEN [key |-> nd.key, value |-> nd.value]
                      ELSE nd.entries[elem.index + 1]
         IN  [key |-> entry.key, value |-> entry.value, it |-> MapItr_next(h, it)]

----------------------------------------------------------------------------
(* ListIterator: a mutable object with an index and a stack of 32 (node, index) *)

\* ListIterator.Done
ListItr_Done(h, it) == it.index < 0 \/ it.index >= List_Len(h, it.list)

\* ListIterator.seek: from the current depth down to the leaf of index
RECURSIVE ListItr_seek(_, _, _)
ListItr_seek(h, it, index) ==
    LET d    == it.depth
        node == it.stack[d].node
        ix   == ListMask(Shr(h[it.list].origin + index,
                             listNode_depth(h, node) * listNodeBits))
        st   == [it.stack EXCEPT ![d].index = ix]
    IN  IF h[node].kind = "listBranch"
        THEN ListItr_seek(h, [it EXCEPT
                 !.stack = [st EXCEPT ![d + 1] = [node |-> h[node].children[ix],
                                                  index |-> 0]],
                 !.depth = d + 1], index)
        ELSE [it EXCEPT !.stack = st]

\* the check that opens ListIterator.Seek
ListItr_Seek_panic(h, it, index) ==
    IF index < 0 \/ index >= List_Len(h, it.list) THEN "IndexOutOfRange" ELSE "none"

\* ListIterator.Seek past its check
ListItr_Seek(h, it, index) ==
    ListItr_seek(h, [it EXCEPT !.index = index,
                               !.stack[0] = [node |-> h[it.list].root, index |-> 0],
                               !.depth = 0], index)

\* ListIterator.First
ListItr_First(h, it) ==
    IF List_Len(h, it.list) # 0 THEN ListItr_Seek(h, it, 0) ELSE it

\* ListIterator.Last
ListItr_Last(h, it) ==
    LET n == List_Len(h, it.list)
    IN  IF n # 0 THEN ListItr_Seek(h, it, n - 1) ELSE it

\* List.Iterator
List_Iterator(h, l) ==
    ListItr_First(h, [kind |-> "listItr", list |-> l, index |-> 0, depth |-> 0,
                      stack |-> Slots([i \in 0..(itrStackSize - 1) |-> ZeroElem])])

\* the loop of ListIterator.Next that moves up the stack
RECURSIVE ListItr_upNext(_)
\* the loop left out: the iterator stays on its leaf
ListItr_upNext_stay(it) == it

ListItr_upNext(it) ==
    IF it.depth > 0 /\ it.stack[it.depth].index >= listNodeSize - 1
    THEN ListItr_upNext([it EXCEPT !.depth = it.depth - 1])
    ELSE it

\* the loop of ListIterator.Prev left out: the iterator stays on its leaf
ListItr_upPrev_stay(it) == it

\* the loop of ListIterator.Prev that moves up the stack
RECURSIVE ListItr_upPrev(_)
ListItr_upPrev(it) ==
    IF it.depth > 0 /\ it.stack[it.depth].index = 0
    THEN ListItr_upPrev([it EXCEPT !.depth = it.depth - 1])
    ELSE it

\* ListIterator.Next that seeks from the leaf without moving up the stack
ListItr_Next_noup(h, it) ==
    IF ListItr_Done(h, it) THEN [index |-> -1, value |-> Nil, it |-> it]
    ELSE LET elem == it.stack[it.depth]
             it1  == [it EXCEPT !.index = it.index + 1]
         IN  [index |-> it.index,
              value |-> h[elem.node].children[elem.index],
              it    |-> IF ListItr_Done(h, it1) THEN it1
                        ELSE ListItr_seek(h, it1, it1.index)]

\* ListIterator.Next: the pair returned and the iterator after the call
ListItr_Next(h, it) ==
    IF ListItr_Done(h, it) THEN [index |-> -1, value |-> Nil, it |-> it]
    ELSE LET elem == it.stack[it.depth]
             it1  == [it EXCEPT !.index = it.index + 1]
         IN  [index |-> it.index,
              value |-> h[elem.node].children[elem.index],
              it    |-> IF ListItr_Done(h, it1) THEN it1
                        ELSE ListItr_seek(h, ListItr_upNext(it1), it1.index)]

\* ListIterator.Prev that seeks from the leaf without moving up the stack
ListItr_Prev_noup(h, it) ==
    IF ListItr_Done(h, it) THEN [index |-> -1, value |-> Nil, it |-> it]
    ELSE LET elem == it.stack[it.depth]
             it1  == [it EXCEPT !.index = it.index - 1]
         IN  [index |-> it.index,
              value |-> h[elem.node].children[elem.index],
              it    |-> IF ListItr_Done(h, it1) THEN it1
                        ELSE ListItr_seek(h, it1, it1.index)]

\* ListIterator.Prev: the pair returned and the iterator after the call
ListItr_Prev(h, it) ==
    IF ListItr_Done(h, it) THEN [index |-> -1, value |-> Nil, it |-> it]
    ELSE LET elem == it.stack[it.depth]
             it1  == [it EXCEPT !.index = it.index - 1]
         IN  [index |-> it.index,
              value |-> h[elem.node].children[elem.index],
              it    |-> IF ListItr_Done(h, it1) THEN it1
                        ELSE ListItr_seek(h, ListItr_upPrev(it1), it1.index)]

----------------------------------------------------------------------------
(* The operations a client calls, as actions *)

\* no panic; a call that panicked is recorded as the call and the class of
\* its panic
NoErr == [call |-> "none", class |-> "none"]
Panicked(call, class) == [call |-> call, class |-> class]

\* the last call: the operation, its arguments, and its panic if it panicked
NoOp == [name |-> "none", a |-> 0, b |-> 0, v |-> Nil, err |-> NoErr]
NoItr == [kind |-> "none"]

\* the element values a client stores: nil, or a value no earlier step used
FreshVal == grown + shrunk + nops + 1
Vals == {Nil, FreshVal}

\* keys that are not ints: two strings, a byte slice and a float64
KindKeys == {StringKey(97), StringKey(98), ByteSliceKey(97), Float64Key(1)}

\* the count of free operations after which none is explored
OpsDone == MaxOps + MaxGrownOps

\* a free operation may be taken
MayOp == itr.kind = "none" /\ nops < (IF grown = 0 THEN MaxOps ELSE MaxGrownOps)

IsList == heap[cur].kind = "List"

\* the indexes a client uses on a list of n elements
ListIdx(n) == {i \in 0..n : i <= 1 \/ i >= n - 1 \/ i \in {listNodeSize - 1, listNodeSize}}

\* the same and the two indexes next to the list
ListCallIdx(n) == ListIdx(n) \cup {-1, n + 1}

Did(res, opn) ==
    /\ heap' = res.h
    /\ cur' = res.n
    /\ recv' = cur
    /\ op' = opn

\* a call that panics changes nothing
DidPanic(call, class, a, b) ==
    /\ op' = [NoOp EXCEPT !.name = "Panic", !.a = a, !.b = b, !.err = Panicked(call, class)]
    /\ UNCHANGED <<heap, cur, recv, grown, shrunk, nops, itr, out, abs>>

ListInit ==
    LET r == NewList(<<>>)
    IN  /\ heap = r.h
        /\ cur = r.n
        /\ recv = Nil
        /\ op = NoOp
        /\ grown = 0
        /\ shrunk = 0
        /\ nops = 0
        /\ itr = NoItr
        /\ out = <<>>
        /\ abs = <<>>

\* growth step: Append of a fresh element
ListGrow ==
    /\ IsList /\ itr.kind = "none" /\ nops = 0 /\ grown < MaxListGrow
    /\ Did(List_Append(heap, cur, FreshVal), [NoOp EXCEPT !.name = "Append", !.v = FreshVal])
    /\ abs' = Append(abs, FreshVal)
    /\ grown' = grown + 1
    /\ UNCHANGED <<shrunk, nops, itr, out>>

ListAppend ==
    /\ IsList /\ MayOp
    /\ \E v \in Vals :
          /\ Did(List_Append(heap, cur, v), [NoOp EXCEPT !.name = "Append", !.v = v])
          /\ abs' = Append(abs, v)
    /\ nops' = nops + 1
    /\ UNCHANGED <<grown, shrunk, itr, out>>

ListPrepend ==
    /\ IsList /\ MayOp
    /\ \E v \in Vals :
          /\ Did(List_Prepend(heap, cur, v), [NoOp EXCEPT !.name = "Prepend", !.v = v])
          /\ abs' = <<v>> \o abs
    /\ nops' = nops + 1
    /\ UNCHANGED <<grown, shrunk, itr, out>>

ListSet ==
    /\ IsList /\ MayOp
    /\ \E i \in ListCallIdx(List_Len(heap, cur)), v \in Vals :
          /\ List_Set_panic(heap, cur, i) = "none"
          /\ Did(List_Set(heap, cur, i, v), [NoOp EXCEPT !.name = "Set", !.a = i, !.v = v])
          /\ abs' = [abs EXCEPT ![i + 1] = v]
    /\ nops' = nops + 1
    /\ UNCHANGED <<grown, shrunk, itr, out>>

ListSlice ==
    /\ IsList /\ MayOp
    /\ \E a \in ListCallIdx(List_Len(heap, cur)), b \in ListCallIdx(List_Len(heap, cur)) :
          /\ List_Slice_panic(heap, cur, a, b) = "none"
          /\ Did(List_Slice(heap, cur, a, b), [NoOp EXCEPT !.name = "Slice", !.a = a, !.b = b])
          /\ abs' = SubSeq(abs, a + 1, b)
    /\ nops' = nops + 1
    /\ UNCHANGED <<grown, shrunk, itr, out>>

\* the lists iterated: the smallest and the largest of the growth steps, and
\* the lists a free operation away from them
ListItrBase ==
    /\ MayOp
    /\ grown <= 2 \/ grown >= MaxListGrow - 1

\* a call on the iterator, recorded in out
ItrCall(call, index, value) == [call |-> call, key |-> index, value |-> value]

\* the calls of out that met a done iterator, and the changes of direction
ItrDoneCalls(o) == Cardinality({j \in 2..Len(o) : o[j].key = -1})
ItrSwitches(o) == Cardinality({j \in 2..(Len(o) - 1) : o[j].call # o[j + 1].call})

\* List.Iterator
ListIterator ==
    /\ IsList /\ ListItrBase
    /\ itr' = List_Iterator(heap, cur)
    /\ op' = [NoOp EXCEPT !.name = "Iterator"]
    /\ out' = <<ItrCall("Iterator", 0, Nil)>>
    /\ UNCHANGED <<heap, cur, recv, grown, shrunk, nops, abs>>

\* ListIterator.Last on a fresh iterator
ListItrLast ==
    /\ itr.kind = "listItr" /\ op.name = "Iterator"
    /\ itr' = ListItr_Last(heap, itr)
    /\ op' = [NoOp EXCEPT !.name = "Last"]
    /\ out' = <<ItrCall("Last", List_Len(heap, cur) - 1, Nil)>>
    /\ UNCHANGED <<heap, cur, recv, grown, shrunk, nops, abs>>

\* ListIterator.Seek on a fresh iterator of a list of the growth steps
ListItrSeek ==
    /\ itr.kind = "listItr" /\ op.name = "Iterator" /\ nops = 0
    /\ \E i \in ListCallIdx(List_Len(heap, cur)) :
          /\ ListItr_Seek_panic(heap, itr, i) = "none"
          /\ itr' = ListItr_Seek(heap, itr, i)
          /\ op' = [NoOp EXCEPT !.name = "Seek", !.a = i]
          /\ out' = <<ItrCall("Seek", i, Nil)>>
    /\ UNCHANGED <<heap, cur, recv, grown, shrunk, nops, abs>>

\* List.Get: the element, or a panic
ListGet ==
    /\ IsList /\ ListItrBase
    /\ \E i \in ListCallIdx(List_Len(heap, cur)) :
          LET e == List_Get_panic(heap, cur, i)
          IN  IF e = "none"
              THEN /\ op' = [NoOp EXCEPT !.name = "Get", !.a = i,
                                         !.v = List_Get(heap, cur, i)]
                   /\ UNCHANGED <<heap, cur, recv, grown, shrunk, nops, itr, out, abs>>
              ELSE DidPanic("Get", e, i, 0)

\* a List.Set that panics
ListSetPanic ==
    /\ IsList /\ ListItrBase
    /\ \E i \in ListCallIdx(List_Len(heap, cur)) :
          LET e == List_Set_panic(heap, cur, i)
          IN  e # "none" /\ DidPanic("Set", e, i, 0)

\* a List.Slice that panics
ListSlicePanic ==
    /\ IsList /\ ListItrBase
    /\ \E a \in ListCallIdx(List_Len(heap, cur)), b \in ListCallIdx(List_Len(heap, cur)) :
          LET e == List_Slice_panic(heap, cur, a, b)
          IN  e # "none" /\ DidPanic("Slice", e, a, b)

\* a ListIterator.Seek, on a fresh iterator, that panics
ListItrSeekPanic ==
    /\ itr.kind = "listItr" /\ op.name = "Iterator"
    /\ \E i \in ListCallIdx(List_Len(heap, cur)) :
          LET e == ListItr_Seek_panic(heap, itr, i)
          IN  e # "none" /\ DidPanic("Seek", e, i, 0)

\* the calls of Next and Prev explored: one change of direction, and
\* MaxDoneCalls calls on a done iterator
ListItrMayCall ==
    /\ itr.kind = "listItr"
    /\ ItrDoneCalls(out) < MaxDoneCalls
    /\ ItrSwitches(out) = 0

\* ListIterator.Next
ListItrNext ==
    /\ ListItrMayCall
    /\ LET r == ListItr_Next(heap, itr)
       IN  /\ itr' = r.it
           /\ op' = [NoOp EXCEPT !.name = "Next", !.a = r.index, !.v = r.value]
           /\ out' = Append(out, ItrCall("Next", r.index, r.value))
    /\ UNCHANGED <<heap, cur, recv, grown, shrunk, nops, abs>>

\* ListIterator.Prev
ListItrPrev ==
    /\ ListItrMayCall
    /\ LET r == ListItr_Prev(heap, itr)
       IN  /\ itr' = r.it
           /\ op' = [NoOp EXCEPT !.name = "Prev", !.a = r.index, !.v = r.value]
           /\ out' = Append(out, ItrCall("Prev", r.index, r.value))
    /\ UNCHANGED <<heap, cur, recv, grown, shrunk, nops, abs>>

ListNext ==
    \/ ListGrow \/ ListAppend \/ ListPrepend \/ ListSet \/ ListSlice
    \/ ListIterator \/ ListItrLast \/ ListItrSeek \/ ListItrNext \/ ListItrPrev
    \/ ListGet \/ ListSetPanic \/ ListSlicePanic \/ ListItrSeekPanic

SpecList == ListInit /\ [][ListNext]_vars

----------------------------------------------------------------------------
(* Map: the operations a client calls *)

IsMap == heap[cur].kind = "Map"

\* two keys that the client's Hasher hashes like key 1, and a key whose hash
\* differs from the hash of key 0 only above bit 25
CollideKey1 == 2 ^ UserHashBits + 1
CollideKey2 == 2 ^ (UserHashBits + 1) + 1
DeepKey == 2 ^ (UserHashBits - 1)

\* the i-th key of the growth steps: 0, 1, a key colliding with 1, two keys
\* that share fragments with 0, then 2, 3, 4, ...
MapSpineKey(i) ==
    IF i <= 5 THEN <<0, 1, CollideKey1, 32, 1024>>[i] ELSE i - 4

\* the keys of the free operations
MapKeys == {0, 1, CollideKey1, CollideKey2, 32, 63, DeepKey}

\* ghost: the abstract map after Set(k, v) and after Delete(k)
AbsSet(a, k, v) == {p \in a : p[1] # k} \cup {<<k, v>>}
AbsDelete(a, k) == {p \in a : p[1] # k}

MapInit ==
    \E hs \in {"none", "userHasher", "constHasher"} :
        LET r == NewMap(<<>>, hs)
        IN  /\ heap = r.h
            /\ cur = r.n
            /\ recv = Nil
            /\ op = NoOp
            /\ grown = 0
            /\ shrunk = 0
            /\ nops = 0
            /\ itr = NoItr
            /\ out = <<>>
            /\ abs = {}

\* growth step: Set of the next spine key to a fresh value
MapGrow ==
    /\ IsMap /\ itr.kind = "none" /\ nops = 0 /\ shrunk = 0 /\ grown < MaxMapGrow
    /\ LET k == MapSpineKey(grown + 1)
       IN  /\ Map_Set_panic(heap, cur, k) = "none"
           /\ Did(Map_Set(heap, cur, k, FreshVal),
                  [NoOp EXCEPT !.name = "Set", !.a = k, !.v = FreshVal])
           /\ abs' = AbsSet(abs, k, FreshVal)
    /\ grown' = grown + 1
    /\ UNCHANGED <<shrunk, nops, itr, out>>

\* shrink step: Delete of the spine key added last among those left, until
\* the map is empty
MapShrink ==
    /\ IsMap /\ itr.kind = "none" /\ nops = 0
    /\ grown = MaxMapGrow /\ shrunk < grown
    /\ LET k == MapSpineKey(grown - shrunk)
       IN  /\ Did(Map_Delete(heap, cur, k), [NoOp EXCEPT !.name = "Delete", !.a = k])
           /\ abs' = AbsDelete(abs, k)
    /\ shrunk' = shrunk + 1
    /\ UNCHANGED <<grown, nops, itr, out>>

\* the maps explored further: the smallest, the array node at its limit and
\* right after it, and the maps around the hash-array conversion, after at
\* most MaxMapShrink shrink steps or down to the last entries
MapBase ==
    /\ \/ grown <= 3
       \/ grown \in {maxArrayMapSize, maxArrayMapSize + 1}
       \/ grown >= MaxMapGrow - 5
    /\ shrunk <= MaxMapShrink \/ grown - shrunk <= 3

MapSet ==
    /\ IsMap /\ MayOp /\ MapBase
    /\ \E k \in MapKeys, v \in Vals :
          /\ Map_Set_panic(heap, cur, k) = "none"
          /\ Did(Map_Set(heap, cur, k, v), [NoOp EXCEPT !.name = "Set", !.a = k, !.v = v])
          /\ abs' = AbsSet(abs, k, v)
    /\ nops' = nops + 1
    /\ UNCHANGED <<grown, shrunk, itr, out>>

MapDelete ==
    /\ IsMap /\ MayOp /\ MapBase
    /\ \E k \in MapKeys :
          /\ Did(Map_Delete(heap, cur, k), [NoOp EXCEPT !.name = "Delete", !.a = k])
          /\ abs' = AbsDelete(abs, k)
    /\ nops' = nops + 1
    /\ UNCHANGED <<grown, shrunk, itr, out>>

\* Map.Iterator on a map few free operations away from a growth step
MapIterator ==
    /\ IsMap /\ itr.kind = "none" /\ nops < MaxGrownOps
    /\ itr' = Map_Iterator(heap, cur)
    /\ op' = [NoOp EXCEPT !.name = "Iterator"]
    /\ out' = <<>>
    /\ UNCHANGED <<heap, cur, recv, grown, shrunk, nops, abs>>

\* MapIterator.Next, once more after the iterator is done
MapItrNext ==
    /\ itr.kind = "mapItr"
    /\ ~(MapItr_Done(itr) /\ op.name = "Next" /\ op.b = 1)
    /\ LET r == MapItr_Next(heap, itr)
       IN  /\ itr' = r.it
           /\ op' = [NoOp EXCEPT !.name = "Next", !.a = r.key, !.v = r.value,
                                 !.b = IF MapItr_Done(itr) THEN 1 ELSE 0]
           /\ out' = IF MapItr_Done(itr) THEN out
                     ELSE Append(out, [key |-> r.key, value |-> r.value])
    /\ UNCHANGED <<heap, cur, recv, grown, shrunk, nops, abs>>

\* Map.Set of a key that is not an int: a panic, or a map that is not
\* explored further (on an emptied map a key of a type that the map's hasher
\* does not assert is stored without being hashed)
MapSetKind ==
    /\ IsMap /\ MayOp /\ MapBase
    /\ \E k \in KindKeys :
          LET e == Map_Set_panic(heap, cur, k)
          IN  IF e = "none"
              THEN /\ Did(Map_Set(heap, cur, k, FreshVal),
                          [NoOp EXCEPT !.name = "Set", !.a = k, !.v = FreshVal])
                   /\ abs' = AbsSet(abs, k, FreshVal)
                   /\ nops' = OpsDone
                   /\ UNCHANGED <<grown, shrunk, itr, out>>
              ELSE DidPanic("Set", e, k, 0)

MapNext ==
    \/ MapGrow \/ MapShrink \/ MapSet \/ MapDelete \/ MapIterator \/ MapItrNext
    \/ MapSetKind

SpecMap == MapInit /\ [][MapNext]_vars


----------------------------------------------------------------------------
(* List: what a client observes *)

\* the elements of list l in index order
ListObs(h, l) == [i \in 1..List_Len(h, l) |-> List_Get(h, l, i - 1)]

\* list l of heap h holds exactly the elements of sequence s
ListHolds(h, l, s) ==
    /\ List_Len(h, l) = Len(s)
    /\ \A i \in 1..Len(s) : List_Get(h, l, i - 1) = s[i]

RootDepth(l) == listNode_depth(heap, heap[l].root)

\* C5: Append(v) on a list of size n gives a list of size n+1 with v at index
\* n and every index below n as in the receiver, also when a root level is added
C5_AppendPost ==
    (IsList /\ op.name = "Append") =>
        LET n == List_Len(heap, recv)
        IN  /\ List_Len(heap, cur) = n + 1
            /\ List_Get(heap, cur, n) = op.v
            /\ \A i \in 0..(n - 1) : List_Get(heap, cur, i) = List_Get(heap, recv, i)

\* an Append to a non-empty list that added a root level
C5_Witness ==
    /\ IsList /\ op.name = "Append" /\ op.v # Nil
    /\ List_Len(heap, recv) > 1
    /\ heap[recv].origin > 0
    /\ RootDepth(cur) = RootDepth(recv) + 1

\* C6: Prepend(v) on a list of size n gives a list of size n+1 with v at index
\* 0 and index i+1 holding what index i held, also when origin was 0
C6_PrependPost ==
    (IsList /\ op.name = "Prepend") =>
        LET n == List_Len(heap, recv)
        IN  /\ List_Len(heap, cur) = n + 1
            /\ List_Get(heap, cur, 0) = op.v
            /\ \A i \in 0..(n - 1) : List_Get(heap, cur, i + 1) = List_Get(heap, recv, i)

\* a Prepend to a non-empty list with origin 0: new root level, origin moved
C6_Witness ==
    /\ IsList /\ op.name = "Prepend" /\ op.v # Nil
    /\ List_Len(heap, recv) > 1
    /\ heap[recv].origin = 0
    /\ RootDepth(cur) = RootDepth(recv) + 1
    /\ heap[cur].origin > 0

\* C7: Set(i,v) keeps the size, puts v at index i and leaves the others
C7_SetPost ==
    (IsList /\ op.name = "Set") =>
        LET n == List_Len(heap, recv)
        IN  /\ List_Len(heap, cur) = n
            /\ List_Get(heap, cur, op.a) = op.v
            /\ \A j \in 0..(n - 1) :
                  j # op.a => List_Get(heap, cur, j) = List_Get(heap, recv, j)

\* a Set in the second leaf of a list whose origin is not 0
C7_Witness ==
    /\ IsList /\ op.name = "Set" /\ op.v # Nil
    /\ heap[recv].origin > 0
    /\ op.a >= listNodeSize
    /\ List_Len(heap, recv) > op.a + 1

\* C8: Slice(a,b) has size b-a and holds at i what the receiver holds at a+i;
\* an Append or Prepend to the slice extends exactly these elements
C8_SlicePost ==
    (IsList /\ op.name = "Slice") =>
        LET sl == [i \in 1..(op.b - op.a) |-> List_Get(heap, recv, op.a + i - 1)]
            ap == List_Append(heap, cur, FreshVal)
            pp == List_Prepend(heap, cur, FreshVal)
        IN  /\ ListHolds(heap, cur, sl)
            /\ ListHolds(ap.h, ap.n, [i \in 1..(Len(sl) + 1) |->
                                        IF i <= Len(sl) THEN sl[i] ELSE FreshVal])
            /\ ListHolds(pp.h, pp.n, [i \in 1..(Len(sl) + 1) |->
                                        IF i = 1 THEN FreshVal ELSE sl[i - 1]])

\* a Slice that contracted the root to a child that is not the first
C8_Witness ==
    /\ IsList /\ op.name = "Slice"
    /\ op.a > 0 /\ op.b > op.a
    /\ RootDepth(cur) < RootDepth(recv)
    /\ heap[cur].origin < heap[recv].origin

\* the calls made on the iterator since it was positioned by call start
ItrCalls == SubSeq(out, 2, Len(out))
ItrRun(start, call) ==
    /\ IsList /\ itr.kind = "listItr"
    /\ out[1].call = start
    /\ \A j \in 1..Len(ItrCalls) : ItrCalls[j].call = call

\* C13: on a fresh iterator of a list of n elements the j-th Next returns
\* (j-1, Get(j-1)) for j <= n and index -1 after that; Done holds exactly from
\* the n-th call on, from the start for the empty list
C13_ListIterForward ==
    ItrRun("Iterator", "Next") =>
        LET n == List_Len(heap, cur)
            k == Len(ItrCalls)
        IN  /\ \A j \in 1..k :
                  IF j <= n
                  THEN ItrCalls[j] = ItrCall("Next", j - 1, List_Get(heap, cur, j - 1))
                  ELSE ItrCalls[j].key = -1
            /\ ListItr_Done(heap, itr) <=> k >= n

\* a forward run to the end over a list whose elements lie in three leaves
\* under a root of depth 2, followed by a Next that returned -1
C13_Witness ==
    /\ ItrRun("Iterator", "Next")
    /\ RootDepth(cur) = 2
    /\ heap[cur].origin > 0
    /\ List_Len(heap, cur) > listNodeSize
    /\ Len(ItrCalls) = List_Len(heap, cur) + 1
    /\ ListItr_Done(heap, itr)

\* C14: on a non-empty list of n elements, after Last the j-th Prev returns
\* (n-j, Get(n-j)) for j <= n and index -1 after that; Done holds exactly from
\* the n-th call on
C14_ListIterBackward ==
    (ItrRun("Last", "Prev") /\ List_Len(heap, cur) > 0) =>
        LET n == List_Len(heap, cur)
            k == Len(ItrCalls)
        IN  /\ \A j \in 1..k :
                  IF j <= n
                  THEN ItrCalls[j] = ItrCall("Prev", n - j, List_Get(heap, cur, n - j))
                  ELSE ItrCalls[j].key = -1
            /\ ListItr_Done(heap, itr) <=> k >= n

\* a backward run to the start over a list whose elements lie in three leaves
\* under a root of depth 2, followed by a Prev that returned -1
C14_Witness ==
    /\ ItrRun("Last", "Prev")
    /\ RootDepth(cur) = 2
    /\ heap[cur].origin > 0
    /\ List_Len(heap, cur) > listNodeSize
    /\ Len(ItrCalls) = List_Len(heap, cur) + 1
    /\ ListItr_Done(heap, itr)

\* the last two calls on the iterator were a Next and a Prev, in either
\* order, and the iterator was not done between them
ItrSwitched ==
    /\ IsList /\ itr.kind = "listItr" /\ Len(ItrCalls) >= 2
    /\ out[Len(out) - 1].call # out[Len(out)].call
    /\ out[Len(out)].key # -1

\* C15 as stated: the call after a change of direction returns the pair the
\* call before it returned
C15_SwitchSamePair ==
    ItrSwitched =>
        /\ out[Len(out)].key = out[Len(out) - 1].key
        /\ out[Len(out)].value = out[Len(out) - 1].value

\* C15: a Prev right after a Next that returned (i, v) and left the iterator
\* not done returns (i+1, Get(i+1)), the element the iterator moved to; a
\* Next right after a Prev that returned (i, v) returns (i-1, Get(i-1))
C15_SwitchMovedPair ==
    ItrSwitched =>
        LET was == out[Len(out) - 1]
            now == out[Len(out)]
            i   == IF was.call = "Next" THEN was.key + 1 ELSE was.key - 1
        IN  /\ now.key = i
            /\ now.value = List_Get(heap, cur, i)

\* a Prev after a Next that crossed from one leaf to the next
C15_Witness ==
    /\ ItrSwitched
    /\ out[Len(out) - 1].call = "Next"
    /\ out[Len(out)].call = "Prev"
    /\ ListMask(heap[cur].origin + out[Len(out)].key) = 0
    /\ out[Len(out)].value # out[Len(out) - 1].value


\* C18: L.Slice(0, L.Len()) returns L itself, the same facade, also for the
\* empty list
C18_SliceFull ==
    (IsList /\ op.name = "Slice" /\ op.a = 0 /\ op.b = List_Len(heap, recv)) =>
        cur = recv

\* a Slice of the full range of a list of more than one leaf whose origin
\* is not 0
C18_Witness ==
    /\ IsList /\ op.name = "Slice" /\ op.a = 0 /\ op.b = List_Len(heap, recv)
    /\ cur = recv
    /\ List_Len(heap, cur) > listNodeSize
    /\ heap[cur].origin > 0

\* the step is a call with index a, or indexes a and b, on a list of n
\* elements: it panicked with IndexOutOfRange, with InvalidSlice, or returned
C19_Class(call, a, b, n) ==
    IF call = "Slice"
    THEN IF a < 0 \/ a > n \/ b < 0 \/ b > n THEN "IndexOutOfRange"
         ELSE IF a > b THEN "InvalidSlice" ELSE "none"
    ELSE IF a < 0 \/ a >= n THEN "IndexOutOfRange" ELSE "none"

C19_Step ==
    IsList =>
        LET n == List_Len(heap, cur)
        IN  /\ op'.name = "Panic" =>
                  /\ op'.err.class = C19_Class(op'.err.call, op'.a, op'.b, n)
                  /\ heap' = heap /\ cur' = cur /\ itr' = itr
            /\ op'.name \in {"Get", "Set", "Seek", "Slice"} =>
                  C19_Class(op'.name, op'.a, op'.b, n) = "none"

\* C19: Get(i), Set(i, v) and Seek(i) panic with IndexOutOfRange exactly if
\* i < 0 or i >= Len; Slice(start, end) panics with IndexOutOfRange exactly
\* if start or end is outside [0, Len] and otherwise with InvalidSlice exactly
\* if start > end; a call that panics allocates nothing and leaves the
\* receiver and the iterator as they were
C19_ListPanics == [][C19_Step]_vars

\* a Slice with start above end, both within the list, that panicked with
\* InvalidSlice on a list of more than one leaf
C19_Witness ==
    /\ IsList /\ op.name = "Panic"
    /\ op.err = Panicked("Slice", "InvalidSlice")
    /\ op.a = List_Len(heap, cur) /\ op.b = listNodeSize
    /\ List_Len(heap, cur) > listNodeSize

\* the trie addresses, below node n whose first address is base, of the leaf
\* slots that hold an element (a value that is not nil) and lie outside
\* [lo, hi); a branch slot holds them through its child
RECURSIVE ListOutside(_, _, _, _, _)
ListOutside(h, n, base, lo, hi) ==
    IF h[n].kind = "listLeaf"
    THEN {base + i : i \in {j \in 0..(listNodeSize - 1) :
                                /\ h[n].children[j] # Nil
                                /\ ~(lo <= base + j /\ base + j < hi)}}
    ELSE LET span == 2 ^ (h[n].d * listNodeBits)
         IN  UNION {ListOutside(h, h[n].children[i], base + i * span, lo, hi) :
                      i \in {j \in 0..(listNodeSize - 1) : h[n].children[j] # Nil}}

\* C24 as stated: in every list made by Append, Prepend, Set and Slice no
\* trie slot outside [origin, origin+size) holds an element, itself or below
\* a child, also in the result of Slice(start, end) with start = end
C24_NoOutsideRefs ==
    IsList =>
        ListOutside(heap, heap[cur].root, 0, heap[cur].origin,
                    heap[cur].origin + heap[cur].size) = {}

\* C25 as stated: Append adds a root level exactly when origin + size of the
\* receiver equals 32^(depth of its root + 1), and leaves the depth of the
\* root alone otherwise
C25_AppendExpandsWhenFull ==
    (IsList /\ op.name = "Append") =>
        LET d == RootDepth(recv)
        IN  IF heap[recv].origin + heap[recv].size = listNodeSize ^ (d + 1)
            THEN /\ RootDepth(cur) = d + 1
                 /\ listNode_depth(heap, heap[heap[cur].root].children[0]) = d
            ELSE RootDepth(cur) = d

\* trie address index resolves from node n through children that are not nil
\* down to a slot of a leaf
RECURSIVE ListResolves(_, _, _)
ListResolves(h, n, index) ==
    /\ n # Nil
    /\ \/ h[n].kind = "listLeaf"
       \/ /\ h[n].kind = "listBranch"
          /\ ListResolves(h, h[n].children[ListMask(Shr(index, h[n].d * listNodeBits))],
                          index)

\* C31: every list made by Append, Prepend, Set and Slice has 0 <= origin,
\* 0 <= size and origin + size <= 32^(depth of the root + 1), and the trie
\* address origin + i of every index i below size resolves through children
\* that are not nil down to a leaf slot
C31_ListWellFormed ==
    IsList =>
        LET l == heap[cur]
        IN  /\ 0 <= l.origin
            /\ 0 <= l.size
            /\ l.origin + l.size <= listNodeSize ^ (RootDepth(cur) + 1)
            /\ \A i \in 0..(l.size - 1) : ListResolves(heap, l.root, l.origin + i)

\* a slice of a prepended list, whose root is a child from slot 31 of the
\* receiver's root: origin moved back by the addresses below that child
C31_Witness ==
    /\ IsList /\ op.name = "Slice" /\ cur # recv
    /\ RootDepth(cur) < RootDepth(recv)
    /\ heap[cur].origin < heap[recv].origin - listNodeSize
    /\ heap[cur].size >= 1

\* the frames 0..depth of the stack of list iterator it are those of a path
\* from the root to the leaf of it.index: frame 0 is the root of the list,
\* the slot of every frame is the fragment of the address origin + index at
\* the depth of the frame's node, the node of the next frame is the child in
\* that slot, and the node of the top frame is a leaf
ListItrOnPath(h, it) ==
    LET addr == h[it.list].origin + it.index
    IN  /\ it.stack[0].node = h[it.list].root
        /\ \A i \in 0..it.depth :
              /\ it.stack[i].node # Nil
              /\ it.stack[i].index
                    = ListMask(Shr(addr, listNode_depth(h, it.stack[i].node) * listNodeBits))
        /\ \A i \in 0..(it.depth - 1) :
              /\ h[it.stack[i].node].kind = "listBranch"
              /\ it.stack[i + 1].node = h[it.stack[i].node].children[it.stack[i].index]
        /\ h[it.stack[it.depth].node].kind = "listLeaf"

\* C36: after every Seek, Next and Prev that leaves a ListIterator not Done
\* (and after First and Last) the frames of its stack are those that
\* Seek(index) builds from the root: no frame of an ancestor is left as it
\* was for an earlier index
C36_StackAsSeek ==
    (itr.kind = "listItr" /\ ~ListItr_Done(heap, itr)) =>
        LET full == ListItr_Seek(heap, itr, itr.index)
        IN  /\ ListItrOnPath(heap, itr)
            /\ itr.depth = full.depth
            /\ \A i \in 0..itr.depth : itr.stack[i] = full.stack[i]

\* a Prev that moved from the first slot of a leaf to the last slot of the
\* leaf before it, and a Next that moved from slot 31 to slot 0
C36_Witness ==
    /\ itr.kind = "listItr" /\ ~ListItr_Done(heap, itr)
    /\ itr.depth >= 1
    /\ \/ op.name = "Prev" /\ itr.stack[itr.depth].index = listNodeSize - 1
       \/ op.name = "Next" /\ itr.stack[itr.depth].index = 0 /\ itr.index > 0

----------------------------------------------------------------------------
(* SortedMap: the operations a client calls *)

IsSMap == heap[cur].kind = "SortedMap"

\* the i-th key of the growth steps: the even keys from 2 up at the odd
\* steps, the even keys from SMTop - 2 down at the even steps
SMTop == 4 * SMSeedLen
SMSpineKey(i) == IF i % 2 = 1 THEN i + 1 ELSE SMTop - i

\* the key of the i-th shrink step: the smallest keys, ascending
SMShrinkKey(i) == 2 * i

\* a key in the gap between the two runs of keys, a key above every key
SMMidKey == 2 * SMSeedLen + 1
SMHighKey == SMTop + 1

\* the keys of the free operations and of Seek: below the smallest key, the
\* smallest key, between the last key of the first leaf and the first key of
\* the second, between the two runs, above all keys
SMKeys == {1, 2, 33, SMMidKey, SMHighKey}

SMInit ==
    \E c \in {"none", "userComparer"} :
    LET r == NewSortedMap(<<>>, c)
    IN  /\ heap = r.h
        /\ cur = r.n
        /\ recv = Nil
        /\ op = NoOp
        /\ grown = 0
        /\ shrunk = 0
        /\ nops = 0
        /\ itr = NoItr
        /\ out = <<>>
        /\ abs = {}

\* the objects of heap h that are reachable from map or node n
RECURSIVE SMReach(_, _)
SMReach(h, n) ==
    IF n = Nil THEN {}
    ELSE IF h[n].kind = "SortedMap" THEN {n} \cup SMReach(h, h[n].root)
    ELSE IF h[n].kind = "smBranch"
    THEN {n} \cup UNION {SMReach(h, h[n].elems[i].node) : i \in 1..Len(h[n].elems)}
    ELSE {n}

\* the garbage collector: the heap without the objects that map m does not
\* reach, and the address of m in it
SMCollect(h, m) ==
    LET live    == SMReach(h, m)
        rank(a) == Cardinality({b \in live : b <= a})
        addr(k) == CHOOSE a \in live : rank(a) = k
        move(o) ==
            IF o.kind = "SortedMap"
            THEN [o EXCEPT !.root = IF o.root = Nil THEN Nil ELSE rank(o.root)]
            ELSE IF o.kind = "smBranch"
            THEN [o EXCEPT !.elems = <<>> \o [i \in 1..Len(o.elems) |->
                                                [o.elems[i] EXCEPT !.node = rank(@)]]]
            ELSE o
    IN  [h |-> <<>> \o [k \in 1..Cardinality(live) |-> move(h[addr(k)])],
         n |-> rank(m)]

\* the collector runs before a larger map is used further
SMMustCollect ==
    grown >= MaxSMGrow /\ nops = 0 /\ shrunk = 0 /\ Len(heap) > MaxSMHeap

\* the maps explored further: the empty map, one leaf with one entry, a full
\* leaf, the maps right after the first leaf split, the largest map, and
\* of the thinned maps those whose first leaf is nearly or just removed
SMBase ==
    /\ ~SMMustCollect
    /\ grown <= 1 \/ grown \in (MaxSMGrow - 2)..MaxSMGrow \/ grown = SMSeedLen
    /\ shrunk = 0 \/ shrunk >= MaxSMShrink - 2

\* growth step: Set of the next spine key to a fresh value
SMGrow ==
    /\ IsSMap /\ itr.kind = "none" /\ nops = 0 /\ shrunk = 0 /\ grown < SMSeedLen
    /\ ~SMMustCollect
    /\ LET k == SMSpineKey(grown + 1)
       IN  /\ SortedMap_Set_panic(heap, cur, k) = "none"
           /\ Did(SortedMap_Set(heap, cur, k, FreshVal),
                  [NoOp EXCEPT !.name = "Set", !.a = k, !.v = FreshVal])
           /\ abs' = AbsSet(abs, k, FreshVal)
    /\ grown' = grown + 1
    /\ UNCHANGED <<shrunk, nops, itr, out>>

\* a run of the garbage collector while only the current map is referenced
SMGC ==
    /\ IsSMap /\ itr.kind = "none" /\ SMMustCollect
    /\ LET r == SMCollect(heap, cur)
       IN  /\ heap' = r.h
           /\ cur' = r.n
    /\ recv' = Nil
    /\ op' = [NoOp EXCEPT !.name = "GC"]
    /\ UNCHANGED <<grown, shrunk, nops, itr, out, abs>>

\* shrink step: Delete of the smallest key
SMShrink ==
    /\ IsSMap /\ itr.kind = "none" /\ nops = 0
    /\ ~SMMustCollect
    /\ grown \in {MaxSMGrow, SMSeedLen} /\ shrunk < MaxSMShrink
    /\ LET k == SMShrinkKey(shrunk + 1)
       IN  /\ Did(SortedMap_Delete(heap, cur, k), [NoOp EXCEPT !.name = "Delete", !.a = k])
           /\ abs' = AbsDelete(abs, k)
    /\ shrunk' = shrunk + 1
    /\ UNCHANGED <<grown, nops, itr, out>>

SMSet ==
    /\ IsSMap /\ MayOp /\ SMBase
    /\ \E k \in SMKeys \cup KindKeys, v \in Vals :
          /\ SortedMap_Set_panic(heap, cur, k) = "none"
          /\ AssertedKind(SortedMap_resolveComparer(heap[cur].comparer, k))
                 \in {"any", KeyKind(k)}
          /\ Did(SortedMap_Set(heap, cur, k, v),
                 [NoOp EXCEPT !.name = "Set", !.a = k, !.v = v])
          /\ abs' = AbsSet(abs, k, v)
          /\ nops' = IF k \in KindKeys THEN OpsDone ELSE nops + 1
    /\ UNCHANGED <<grown, shrunk, itr, out>>

SMDelete ==
    /\ IsSMap /\ MayOp /\ SMBase
    /\ \E k \in SMKeys :
          /\ Did(SortedMap_Delete(heap, cur, k), [NoOp EXCEPT !.name = "Delete", !.a = k])
          /\ abs' = AbsDelete(abs, k)
    /\ nops' = nops + 1
    /\ UNCHANGED <<grown, shrunk, itr, out>>

\* an iterator may be created on the current map
MayIterate ==
    /\ itr.kind = "none" /\ SMBase
    /\ IF SortedMap_Len(heap, cur) > MaxItrLen
       THEN nops = 0 /\ shrunk \in {0, MaxSMShrink}
       ELSE nops < MaxGrownOps

\* m.Iterator()
SMIterator ==
    /\ IsSMap /\ MayIterate
    /\ itr' = SortedMap_Iterator(heap, cur)
    /\ out' = <<>>
    /\ op' = [NoOp EXCEPT !.name = "Iterator"]
    /\ UNCHANGED <<heap, cur, recv, grown, shrunk, nops, abs>>

\* itr.Seek(k) on a new iterator
SMItrSeek ==
    /\ itr.kind = "smItr" /\ op.name = "Iterator"
    /\ \E k \in SMKeys :
          /\ itr' = SMItr_Seek(heap, itr, k)
          /\ op' = [NoOp EXCEPT !.name = "Seek", !.a = k]
    /\ UNCHANGED <<heap, cur, recv, grown, shrunk, nops, out, abs>>

\* itr.Next() in a run of Next calls from First, until one call after Done;
\* op.b tells that the iterator was Done when Next was called
SMItrNext ==
    /\ itr.kind = "smItr" /\ op.name \in {"Iterator", "Next"}
    /\ ~(op.name = "Next" /\ op.b = 1)
    /\ LET r == SMItr_Next(heap, itr)
       IN  /\ itr' = r.it
           /\ out' = IF SMItr_Done(itr) THEN out
                     ELSE Append(out, [key |-> r.key, value |-> r.value])
           /\ op' = [NoOp EXCEPT !.name = "Next", !.a = r.key, !.v = r.value,
                                 !.b = IF SMItr_Done(itr) THEN 1 ELSE 0]
    /\ UNCHANGED <<heap, cur, recv, grown, shrunk, nops, abs>>

\* itr.Prev() right after a Next that returned a pair; op.b tells that the
\* iterator was Done when Prev was called
SMItrPrev ==
    /\ itr.kind = "smItr" /\ op.name = "Next" /\ op.b = 0
    /\ LET r == SMItr_Prev(heap, itr)
       IN  /\ itr' = r.it
           /\ op' = [NoOp EXCEPT !.name = "Prev", !.a = r.key, !.v = r.value,
                                 !.b = IF SMItr_Done(itr) THEN 1 ELSE 0]
    /\ UNCHANGED <<heap, cur, recv, grown, shrunk, nops, out, abs>>

\* SortedMap.Set that panics: no comparer for the key's type, or a key of a
\* type that the map's comparer does not assert
SMSetPanic ==
    /\ IsSMap /\ MayOp /\ SMBase
    /\ \E k \in KindKeys :
          /\ SortedMap_Set_panic(heap, cur, k) # "none"
          /\ DidPanic("Set", SortedMap_Set_panic(heap, cur, k), k, 0)

SMNext ==
    \/ SMGrow \/ SMGC \/ SMShrink \/ SMSet \/ SMDelete
    \/ SMIterator \/ SMItrSeek \/ SMItrNext \/ SMItrPrev
    \/ SMSetPanic

SpecSMap == SMInit /\ [][SMNext]_vars

\* itr.Last() on a new iterator
SMItrLast ==
    /\ itr.kind = "smItr" /\ op.name = "Iterator"
    /\ itr' = SMItr_Last(heap, itr)
    /\ out' = <<>>
    /\ op' = [NoOp EXCEPT !.name = "Last"]
    /\ UNCHANGED <<heap, cur, recv, grown, shrunk, nops, abs>>

\* itr.Prev() in a run of Prev calls from Last, until one call after Done;
\* op.b tells that the iterator was Done when Prev was called
SMItrLastPrev ==
    /\ itr.kind = "smItr" /\ op.name \in {"Last", "Prev"}
    /\ ~(op.name = "Prev" /\ op.b = 1)
    /\ LET r == SMItr_Prev(heap, itr)
       IN  /\ itr' = r.it
           /\ out' = IF SMItr_Done(itr) THEN out
                     ELSE Append(out, [key |-> r.key, value |-> r.value])
           /\ op' = [NoOp EXCEPT !.name = "Prev", !.a = r.key, !.v = r.value,
                                 !.b = IF SMItr_Done(itr) THEN 1 ELSE 0]
    /\ UNCHANGED <<heap, cur, recv, grown, shrunk, nops, abs>>

\* the SortedMaps of SpecSMap, iterated from Last by Prev
SMLastNext ==
    \/ SMGrow \/ SMGC \/ SMShrink \/ SMSet \/ SMDelete
    \/ SMIterator \/ SMItrLast \/ SMItrLastPrev

SpecSMapLast == SMInit /\ [][SMLastNext]_vars

----------------------------------------------------------------------------
(* Map: what a client observes *)

\* the keys read from the current map: those of the type its hasher asserts
AllMapKeys ==
    {k \in MapKeys \cup {MapSpineKey(i) : i \in 1..MaxMapGrow} \cup KindKeys :
        AssertedKind(heap[cur].hasher) \in {"any", KeyKind(k)}}

MapRootKind(m) == IF heap[m].root = Nil THEN "nil" ELSE heap[heap[m].root].kind

\* C2: after M.Set(k,v), Get(k) is (v, true), every other key reads as in M,
\* and Len grew by one exactly if k was absent from M (k of a type that the
\* hasher of the map asserts: Get of another key panics in the hasher)
C2_MapSetPost ==
    (IsMap /\ op.name = "Set" /\ Map_Get_panic(heap, cur, op.a) = "none") =>
        /\ Map_Get(heap, cur, op.a) = Found(op.v)
        /\ \A k \in AllMapKeys \ {op.a} : Map_Get(heap, cur, k) = Map_Get(heap, recv, k)
        /\ Map_Len(heap, cur) =
              Map_Len(heap, recv) + (IF Map_Get(heap, recv, op.a).ok THEN 0 ELSE 1)

\* a Set of a nil value for an absent key that turned a bitmap-indexed root
\* into a hash-array root, in a map that holds a collision leaf
C2_Witness ==
    /\ IsMap /\ op.name = "Set" /\ op.v = Nil
    /\ ~Map_Get(heap, recv, op.a).ok
    /\ MapRootKind(recv) = "mapBitmap"
    /\ MapRootKind(cur) = "mapHashArray"
    /\ \E a \in 1..Len(heap) : heap[a].kind = "mapCollision"

\* C3: after M.Delete(k) of a stored key k, Get(k) is (nil, false), every
\* other key reads as in M, and Len is one less
C3_MapDeletePost ==
    (IsMap /\ op.name = "Delete" /\ Map_Get(heap, recv, op.a).ok) =>
        /\ Map_Get(heap, cur, op.a) = NotFound
        /\ \A k \in AllMapKeys \ {op.a} : Map_Get(heap, cur, k) = Map_Get(heap, recv, k)
        /\ Map_Len(heap, cur) = Map_Len(heap, recv) - 1

\* a Delete of a stored key that downgraded a hash-array root
C3_Witness ==
    /\ IsMap /\ op.name = "Delete"
    /\ Map_Get(heap, recv, op.a).ok
    /\ MapRootKind(recv) = "mapHashArray"
    /\ MapRootKind(cur) = "mapBitmap"

\* the keys stored in map m
MapStored(h, m) == {k \in AllMapKeys : Map_Get(h, m, k).ok}

\* every stored key is of the type the hasher asserts, so that Get of it
\* returns
MapKeysHashable == \A p \in abs : Map_Get_panic(heap, cur, p[1]) = "none"

\* C11: Len is the number of stored keys, and a MapIterator run from First
\* with Next until Done has returned every stored pair exactly once: no key
\* twice at any point, done exactly after Len pairs (in a map whose keys are
\* of the type its hasher asserts)
C11_MapIterAll ==
    (IsMap /\ MapKeysHashable) =>
        /\ Map_Len(heap, cur) = Cardinality(MapStored(heap, cur))
        /\ itr.kind = "mapItr" =>
              /\ \A i \in 1..Len(out) : Map_Get(heap, cur, out[i].key) = Found(out[i].value)
              /\ \A i, j \in 1..Len(out) : out[i].key = out[j].key => i = j
              /\ MapItr_Done(itr) <=> Len(out) = Map_Len(heap, cur)
              /\ MapItr_Done(itr) =>
                    \A k \in MapStored(heap, cur) : \E i \in 1..Len(out) : out[i].key = k

\* a finished iteration over a hash-array root with a collision leaf and a
\* bitmap-indexed branch below it
C11_Witness ==
    /\ IsMap /\ itr.kind = "mapItr" /\ MapItr_Done(itr)
    /\ op.name = "Next" /\ op.b = 0
    /\ MapRootKind(cur) = "mapHashArray"
    /\ \E i \in 0..(mapNodeSize - 1) :
          /\ heap[heap[cur].root].nodes[i] # Nil
          /\ heap[heap[heap[cur].root].nodes[i]].kind = "mapCollision"
    /\ \E i \in 0..(mapNodeSize - 1) :
          /\ heap[heap[cur].root].nodes[i] # Nil
          /\ heap[heap[heap[cur].root].nodes[i]].kind = "mapBitmap"
    /\ Len(out) = Map_Len(heap, cur)

\* the keys of the abstract map
MapAbsKeys == {p[1] : p \in abs}

\* C12: keys of one hash that are unequal coexist, each read with its own
\* value, also after others of them were deleted; a map all of whose keys were
\* deleted has Len 0; every collision leaf holds at least two entries, all of
\* the leaf's hash, with pairwise unequal keys (in a map whose keys are of
\* the type its hasher asserts)
C12_Collisions ==
    (IsMap /\ MapKeysHashable) =>
        /\ \A p \in abs : Map_Get(heap, cur, p[1]) = Found(p[2])
        /\ \A k \in AllMapKeys \ MapAbsKeys : Map_Get(heap, cur, k) = NotFound
        /\ Map_Len(heap, cur) = Cardinality(MapAbsKeys)
        /\ \A a \in 1..Len(heap) :
              heap[a].kind = "mapCollision" =>
                  LET es == heap[a].entries
                  IN  /\ Len(es) >= 2
                      /\ \A i \in 1..Len(es) :
                            Hasher_Hash(heap[cur].hasher, es[i].key) = heap[a].keyHash
                      /\ \A i, j \in 1..Len(es) :
                            Hasher_Equal(heap[cur].hasher, es[i].key, es[j].key) => i = j

\* a Delete of one of three stored keys of one hash, below a branch, that
\* left the other two in a collision leaf
C12_Witness ==
    /\ IsMap /\ op.name = "Delete" /\ op.a = 1
    /\ heap[cur].hasher = "userHasher"
    /\ MapRootKind(cur) \in {"mapBitmap", "mapHashArray"}
    /\ {1, CollideKey1, CollideKey2} \subseteq MapStored(heap, recv)
    /\ MapStored(heap, cur) = MapStored(heap, recv) \ {1}
    /\ \E a \in 1..Len(heap) :
          /\ heap[a].kind = "mapCollision"
          /\ {heap[a].entries[i].key : i \in 1..Len(heap[a].entries)}
                = {CollideKey1, CollideKey2}

\* the children of node n: the packed nodes of a bitmap-indexed branch, the
\* occupied slots of a hash-array branch, none for an array node or a leaf
MapChildren(h, n) ==
    IF h[n].kind = "mapBitmap" THEN {h[n].nodes[i] : i \in 1..Len(h[n].nodes)}
    ELSE IF h[n].kind = "mapHashArray"
    THEN {h[n].nodes[i] : i \in 0..(mapNodeSize - 1)} \ {Nil}
    ELSE {}

\* the nodes at and below node n
RECURSIVE MapReach(_, _)
MapReach(h, n) == {n} \cup UNION {MapReach(h, c) : c \in MapChildren(h, n)}

IsMapBranch(h, n) == h[n].kind \in {"mapBitmap", "mapHashArray"}

\* the number of leaves (value and collision nodes) at and below node n
MapLeaves(h, n) ==
    Cardinality({a \in MapReach(h, n) : h[a].kind \in {"mapValue", "mapCollision"}})

\* the branches of map m other than its root
MapInnerBranches(h, m) ==
    IF h[m].root = Nil THEN {}
    ELSE {a \in MapReach(h, h[m].root) \ {h[m].root} : IsMapBranch(h, a)}

\* those of them that wrap a single leaf
MapWrappers(h, m) == {a \in MapInnerBranches(h, m) : MapLeaves(h, a) = 1}

\* C26 as stated: in every map made by Set and Delete every branch other than
\* the root has at least two leaves below it
C26_NoWrapping ==
    IsMap => \A a \in MapInnerBranches(heap, cur) : MapLeaves(heap, a) >= 2

\* C26: every branch other than the root has at least one leaf below it, and
\* a Set does not add to the branches other than the root that have a single
\* leaf below them (only Delete leaves such a branch, and does not collapse it)
C26_Step ==
    IsMap' =>
        /\ \A a \in MapInnerBranches(heap', cur') : MapLeaves(heap', a) >= 1
        /\ (op'.name = "Set" /\ cur' # cur) =>
               Cardinality(MapWrappers(heap', cur')) <= Cardinality(MapWrappers(heap, cur))

C26_WrappingOnlyByDelete == [][C26_Step]_vars

\* a Delete that left a branch below the root with one leaf, and the Set of
\* another key on that map
C26_Witness ==
    /\ IsMap /\ op.name = "Set" /\ cur # recv
    /\ MapWrappers(heap, recv) # {}
    /\ MapWrappers(heap, cur) # {}
    /\ Map_Len(heap, cur) = Map_Len(heap, recv) + 1

\* the last call was a Delete on a map whose root is a hash-array branch, and
\* it made the child in the slot of the key nil
HashArrayChildGone ==
    /\ IsMap /\ op.name = "Delete" /\ cur # recv
    /\ heap[heap[recv].root].kind = "mapHashArray"
    /\ LET hs   == heap[recv].hasher
           hash == Hasher_Hash(hs, op.a)
           node == heap[heap[recv].root].nodes[MapFrag(hash, 0)]
       IN  /\ node # Nil
           /\ mapNode_delete(heap, node, op.a, mapNodeBits, hash, hs).n = Nil

\* C27 as stated: when a Delete makes a child of a hash-array branch nil, the
\* branch becomes a bitmap-indexed branch of exactly the remaining children at
\* their bits if the resulting count is at most 16, and stays a hash-array
\* branch with the slot cleared and the count decremented otherwise
C27_DowngradeAt16 ==
    HashArrayChildGone =>
        LET nd  == heap[heap[recv].root]
            idx == MapFrag(Hasher_Hash(heap[recv].hasher, op.a), 0)
            new == heap[heap[cur].root]
            left == {i \in 0..(mapNodeSize - 1) : nd.nodes[i] # Nil /\ i # idx}
        IN  IF nd.count - 1 <= maxBitmapIndexedSize
            THEN /\ new.kind = "mapBitmap"
                 /\ new.bitmap = left
                 /\ Len(new.nodes) = Cardinality(left)
                 /\ \A i \in left : new.nodes[OnesBelow(left, i) + 1] = nd.nodes[i]
            ELSE /\ new.kind = "mapHashArray"
                 /\ new.count = nd.count - 1
                 /\ new.nodes = [nd.nodes EXCEPT ![idx] = Nil]

\* the last call was a Set on a map whose root is a bitmap-indexed branch
BitmapRootSet ==
    /\ IsMap /\ op.name = "Set" /\ cur # recv
    /\ heap[recv].root # Nil
    /\ heap[heap[recv].root].kind = "mapBitmap"

\* C28 as stated: a Set on a bitmap-indexed branch gives a hash-array branch
\* exactly if the bit of the key's fragment is unset and the branch has 16
\* children (the key would be its 17th), and a bitmap-indexed branch otherwise
C28_PromoteAt17 ==
    BitmapRootSet =>
        LET nd   == heap[heap[recv].root]
            frag == MapFrag(Hasher_Hash(heap[recv].hasher, op.a), 0)
            new  == heap[heap[cur].root]
        IN  IF frag \notin nd.bitmap /\ Len(nd.nodes) = maxBitmapIndexedSize
            THEN new.kind = "mapHashArray"
            ELSE new.kind = "mapBitmap"

\* the hashes of the leaves (value and collision nodes) at and below node n
MapLeafHashes(h, n) ==
    {h[a].keyHash : a \in {b \in MapReach(h, n) : h[b].kind \in {"mapValue", "mapCollision"}}}

\* the branches at and below node n, which is at shift, agree with their
\* children: a bitmap-indexed branch has as many nodes as bits, and the node
\* at index popcount(bitmap & (bit-1)) holds the keys whose hash has fragment
\* bit at the shift of the branch; the count of a hash-array branch is the
\* number of its slots that are not nil
RECURSIVE MapBranchesAgree(_, _, _)
MapBranchesAgree(h, n, shift) ==
    IF h[n].kind = "mapBitmap"
    THEN /\ Cardinality(h[n].bitmap) = Len(h[n].nodes)
         /\ \A bit \in h[n].bitmap :
               LET c == h[n].nodes[OnesBelow(h[n].bitmap, bit) + 1]
               IN  /\ \A x \in MapLeafHashes(h, c) : MapFrag(x, shift) = bit
                   /\ MapBranchesAgree(h, c, shift + mapNodeBits)
    ELSE IF h[n].kind = "mapHashArray"
    THEN /\ h[n].count = Cardinality({i \in 0..(mapNodeSize - 1) : h[n].nodes[i] # Nil})
         /\ \A i \in 0..(mapNodeSize - 1) :
               h[n].nodes[i] # Nil => MapBranchesAgree(h, h[n].nodes[i], shift + mapNodeBits)
    ELSE TRUE

\* C32: in every map made by Set and Delete the bitmap of a bitmap-indexed
\* branch has as many bits as the branch has nodes, the node of a bit is at
\* index popcount(bitmap & (bit-1)), and the count of a hash-array branch is
\* the number of its slots that are not nil; the bitmap-indexed branch that
\* a Delete makes of a hash-array branch of count c has c-1 bits
C32_BranchMetadata ==
    IsMap =>
        /\ heap[cur].root # Nil => MapBranchesAgree(heap, heap[cur].root, 0)
        /\ (/\ op.name = "Delete" /\ recv # Nil /\ cur # recv
            /\ MapRootKind(recv) = "mapHashArray"
            /\ MapRootKind(cur) = "mapBitmap") =>
               Cardinality(heap[heap[cur].root].bitmap) = heap[heap[recv].root].count - 1

\* a Delete made a bitmap-indexed root of a hash-array root
C32_Witness ==
    /\ IsMap /\ op.name = "Delete" /\ recv # Nil /\ cur # recv
    /\ MapRootKind(recv) = "mapHashArray"
    /\ MapRootKind(cur) = "mapBitmap"
    /\ Len(heap[heap[cur].root].nodes) = heap[heap[recv].root].count - 1

\* the last call was a Set, on a map whose root is an array node of
\* maxArrayMapSize entries, of a key that the map did not hold
NinthKeySet ==
    /\ IsMap /\ op.name = "Set" /\ recv # Nil /\ cur # recv
    /\ MapRootKind(recv) = "mapArray"
    /\ Len(heap[heap[recv].root].entries) = maxArrayMapSize
    /\ Map_Len(heap, cur) = Map_Len(heap, recv) + 1

\* C33: in every map made by Set and Delete an array node is the root and
\* holds 1 to 8 entries with pairwise unequal keys, and a bitmap-indexed
\* branch holds at most 17 nodes; the Set of a 9th key on an array node of 8
\* entries gives a root that is no array node, over a tree placed by hash
\* that holds all 9 pairs
C33_ArrayRootOnly ==
    (IsMap /\ heap[cur].root # Nil) =>
        LET root == heap[cur].root
            hs   == heap[cur].hasher
        IN  /\ \A a \in MapReach(heap, root) :
                  /\ heap[a].kind = "mapArray" =>
                        LET es == heap[a].entries
                        IN  /\ a = root
                            /\ Len(es) \in 1..maxArrayMapSize
                            /\ \A i, j \in 1..Len(es) :
                                  Hasher_Equal(hs, es[i].key, es[j].key) => i = j
                  /\ heap[a].kind = "mapBitmap" =>
                        Len(heap[a].nodes) <= maxBitmapIndexedSize + 1
            /\ NinthKeySet =>
                  LET es == heap[heap[recv].root].entries
                  IN  /\ heap[root].kind # "mapArray"
                      /\ MapBranchesAgree(heap, root, 0)
                      /\ Map_Len(heap, cur) = maxArrayMapSize + 1
                      /\ Map_Get(heap, cur, op.a) = Found(op.v)
                      /\ \A i \in 1..Len(es) :
                            Map_Get(heap, cur, es[i].key) = Found(es[i].value)

\* the Set of a 9th key gave a bitmap-indexed root with a branch below it
C33_Witness ==
    /\ NinthKeySet
    /\ MapRootKind(cur) = "mapBitmap"
    /\ MapInnerBranches(heap, cur) # {}

\* the bits of a hash (uint32) and the last shift that reads bits of it
hashBits == 32
MaxShift == ((hashBits - 1) \div mapNodeBits) * mapNodeBits

\* the slots of branch n and the child in each
MapSlots(h, n) ==
    IF h[n].kind = "mapBitmap"
    THEN {<<bit, h[n].nodes[OnesBelow(h[n].bitmap, bit) + 1]>> : bit \in h[n].bitmap}
    ELSE {<<i, h[n].nodes[i]>> : i \in {j \in 0..(mapNodeSize - 1) : h[n].nodes[j] # Nil}}

\* the branches at and below node n, which is at shift, are at a shift of at
\* most 30, and the hash of every leaf below a slot has the index of the slot
\* as its fragment at the shift of the branch
RECURSIVE MapPlaced(_, _, _)
MapPlaced(h, n, shift) ==
    IsMapBranch(h, n) =>
        /\ shift <= MaxShift
        /\ \A sc \in MapSlots(h, n) :
              /\ \A x \in MapLeafHashes(h, sc[2]) : MapFrag(x, shift) = sc[1]
              /\ MapPlaced(h, sc[2], shift + mapNodeBits)

\* the number of branches on the longest path from node n to a leaf
RECURSIVE MapLevels(_, _)
MapLevels(h, n) ==
    IF ~IsMapBranch(h, n) THEN 0
    ELSE LET ls == {MapLevels(h, sc[2]) : sc \in MapSlots(h, n)}
         IN  1 + (CHOOSE l \in ls : \A k \in ls : k <= l)

\* C34: in every map made by Set and Delete a path from the root to a leaf
\* has at most 7 branches, no branch is at a shift above 30, and the hash of
\* a leaf below a branch at shift s has at the shifts 0, 5, ..., s the
\* fragments that are the slots of its path (so that mergeIntoNode, which
\* descends while the fragments of two hashes are equal, ends for two
\* hashes that differ)
C34_DepthBound ==
    (IsMap /\ heap[cur].root # Nil) =>
        /\ MapLevels(heap, heap[cur].root) <= (hashBits + mapNodeBits - 1) \div mapNodeBits
        /\ MapPlaced(heap, heap[cur].root, 0)

\* a Set whose key differs in its hash from a stored key only in bit 30: the
\* two leaves are below 7 branches
C34_Witness ==
    /\ IsMap /\ op.name = "Set" /\ cur # recv /\ heap[cur].root # Nil
    /\ MapLevels(heap, heap[cur].root) = (hashBits + mapNodeBits - 1) \div mapNodeBits
    /\ MapLevels(heap, heap[recv].root) < MapLevels(heap, heap[cur].root)

\* a step from a map whose root is a branch or a leaf that is no array node
\* gives no map with an array node as its root; a step from a map without
\* root gives one only by Set
C38_Step ==
    (IsMap /\ IsMap') =>
        /\ MapRootKind(cur) \notin {"mapArray", "nil"} => MapRootKind(cur)' # "mapArray"
        /\ (MapRootKind(cur) = "nil" /\ MapRootKind(cur)' = "mapArray") => op'.name = "Set"

\* C38: once the root of a Map is no array node, no Delete that leaves the
\* map with a key makes its root an array node again, however few keys are
\* left; an array node is the root again only by a Set on a map whose root
\* became nil
C38_NoArrayAgain == [][C38_Step]_vars

\* a Delete left one key of the largest map of the growth steps below a root
\* that is a bitmap-indexed branch
C38_Witness ==
    /\ IsMap /\ op.name = "Delete" /\ cur # recv
    /\ grown = MaxMapGrow /\ shrunk = MaxMapGrow - 1
    /\ Map_Len(heap, cur) = 1
    /\ MapRootKind(cur) = "mapBitmap"

\* hash a comes before hash b, read as fragments of mapNodeBits bits from the
\* fragment at shift upward
RECURSIVE FragBefore(_, _, _)
FragBefore(a, b, shift) ==
    IF shift > MaxShift THEN FALSE
    ELSE IF MapFrag(a, shift) # MapFrag(b, shift)
    THEN MapFrag(a, shift) < MapFrag(b, shift)
    ELSE FragBefore(a, b, shift + mapNodeBits)

\* the hash of key in map m
MapHashOf(m, key) == Hasher_Hash(heap[m].hasher, key)

\* map m has a branch as its root and no collision leaf
BranchesOnly(m) ==
    /\ MapRootKind(m) \in {"mapBitmap", "mapHashArray"}
    /\ \A a \in MapReach(heap, heap[m].root) : heap[a].kind # "mapCollision"

\* C39: the iteration of a Map whose root is no array node and that has no
\* collision leaf returns the keys in ascending lexicographic order of their
\* hashes read as 5-bit fragments from the least significant one upward,
\* whatever the Sets and Deletes that built the map and whatever its
\* branches are: the keys returned so far are in that order and before every
\* stored key not yet returned, so two maps with the same keys return them in
\* the same order
C39_IterOrder ==
    (IsMap /\ itr.kind = "mapItr" /\ BranchesOnly(itr.m)) =>
        /\ \A i, j \in 1..Len(out) :
              i < j => FragBefore(MapHashOf(itr.m, out[i].key),
                                  MapHashOf(itr.m, out[j].key), 0)
        /\ \A k \in MapStored(heap, itr.m) :
              \/ \E i \in 1..Len(out) : out[i].key = k
              \/ \A i \in 1..Len(out) :
                    FragBefore(MapHashOf(itr.m, out[i].key), MapHashOf(itr.m, k), 0)
        /\ MapItr_Done(itr) => Len(out) = Cardinality(MapStored(heap, itr.m))

\* a finished iteration over a map without collision leaf, reached by a
\* Delete or Set after the growth steps, whose root is a hash-array branch
\* with a bitmap-indexed branch below it
C39_Witness ==
    /\ IsMap /\ itr.kind = "mapItr" /\ MapItr_Done(itr) /\ BranchesOnly(itr.m)
    /\ op.name = "Next" /\ op.b = 0
    /\ nops >= 1
    /\ MapRootKind(itr.m) = "mapHashArray"
    /\ \E i \in 0..(mapNodeSize - 1) :
          /\ heap[heap[itr.m].root].nodes[i] # Nil
          /\ heap[heap[heap[itr.m].root].nodes[i]].kind = "mapBitmap"
    /\ Len(out) = Map_Len(heap, itr.m) /\ Len(out) > maxBitmapIndexedSize + 1

----------------------------------------------------------------------------
(* SortedMap: what a client observes *)

\* the keys of an abstract map
AbsKeys(a) == {p[1] : p \in a}

\* keys that are read besides the stored ones: those of the type the
\* comparer of the current map asserts
SMObsKeys ==
    {k \in SMKeys \cup {SMShrinkKey(i) : i \in 1..(MaxSMShrink + 1)} \cup {SMTop - 2}
            \cup KindKeys :
        AssertedKind(heap[cur].comparer) \in {"any", KeyKind(k)}}

\* the root of map m is a branch of branches
SMRootOfBranches(m) ==
    /\ heap[m].root # Nil
    /\ heap[heap[m].root].kind = "smBranch"
    /\ heap[heap[heap[m].root].elems[1].node].kind = "smBranch"

\* C4: a SortedMap built from the empty map by Set and Delete has the Len of
\* the abstract map of that sequence, Get(k) is (v, true) for each of its
\* pairs (k, v) and (nil, false) for every other key
C4_SMapRefines ==
    (IsSMap /\ op.name \in {"Set", "Delete", "GC"}) =>
        /\ SortedMap_Len(heap, cur) = Cardinality(abs)
        /\ \A p \in abs : SortedMap_Get(heap, cur, p[1]) = Found(p[2])
        /\ \A k \in (SMObsKeys \cup {op.a}) \ AbsKeys(abs) :
              SortedMap_Get(heap, cur, k) = NotFound

\* a Delete on a map whose root split into branches and whose whole first
\* leaf was removed
C4_Witness ==
    /\ IsSMap /\ op.name = "Delete" /\ nops > 0
    /\ SMRootOfBranches(cur)
    /\ shrunk = MaxSMShrink
    /\ sortedMapNode_minKey(heap, heap[cur].root) > sortedMapNodeSize
    /\ SortedMap_Len(heap, cur) = Cardinality(abs)

\* C9: an iterator from First advanced by Next returns stored pairs in
\* strictly ascending key order, is Done exactly when every stored pair was
\* returned, and a Next on a Done iterator returns a nil key; the iterator
\* of an empty map is Done at once
C9_IterAscending ==
    (itr.kind = "smItr" /\ op.name \in {"Iterator", "Next"}) =>
        /\ \A i \in 1..Len(out) : <<out[i].key, out[i].value>> \in abs
        /\ \A i \in 1..(Len(out) - 1) :
              Comparer_Compare(heap[itr.m].comparer, out[i].key, out[i + 1].key) = -1
        /\ SMItr_Done(itr) <=> (Len(out) = Cardinality(abs))
        /\ op.name = "Next" =>
              IF op.b = 1 THEN op.a = Nil /\ op.v = Nil /\ SMItr_Done(itr)
              ELSE op.a # Nil /\ out[Len(out)] = [key |-> op.a, value |-> op.v]

\* a Next on the Done iterator of a thinned map of two leaves, after every
\* pair was returned
C9_Witness ==
    /\ itr.kind = "smItr" /\ op.name = "Next" /\ op.b = 1
    /\ shrunk > 0
    /\ heap[heap[itr.m].root].kind = "smBranch"
    /\ Len(heap[heap[itr.m].root].elems) = 2
    /\ Len(out) = Cardinality(abs)
    /\ Len(out) > sortedMapNodeSize \div 2

\* C10: after Seek(k) the iterator is Done if no stored key is >= k, and
\* otherwise the next Next returns the pair of the smallest stored key >= k
C10_SeekPost ==
    (itr.kind = "smItr" /\ op.name = "Seek") =>
        LET ge == {p \in abs : p[1] >= op.a}
        IN  IF ge = {} THEN SMItr_Done(itr)
            ELSE /\ ~SMItr_Done(itr)
                 /\ LET r == SMItr_Next(heap, itr)
                    IN  /\ <<r.key, r.value>> \in ge
                        /\ \A p \in ge : r.key <= p[1]

\* a Seek of a key between the last key of the first leaf and the first key
\* of the second, in a map thinned by Delete
C10_Witness ==
    /\ itr.kind = "smItr" /\ op.name = "Seek" /\ op.a = sortedMapNodeSize + 1
    /\ shrunk > 0
    /\ sortedMapNodeSize \in AbsKeys(abs)
    /\ ~SMItr_Done(itr)
    /\ itr.depth >= 1
    /\ itr.stack[itr.depth - 1].index = 1
    /\ itr.stack[itr.depth].index = 0
    /\ SMItr_Next(heap, itr).key = sortedMapNodeSize + 2

\* the number of items of node a: entries of a leaf, elements of a branch
SMNodeLen(h, a) == IF h[a].kind = "smLeaf" THEN Len(h[a].entries) ELSE Len(h[a].elems)

SMNodes(h) == {a \in 1..Len(h) : h[a].kind \in {"smLeaf", "smBranch"}}

\* C22: every leaf and every branch of every SortedMap made by Set and Delete
\* holds at least 1 and at most sortedMapNodeSize (32) items
C22_NodeSizes ==
    IsSMap => \A a \in SMNodes(heap) : SMNodeLen(heap, a) \in 1..sortedMapNodeSize

\* a Delete that left a map with a leaf of one entry and a leaf of 32 entries
C22_Witness ==
    /\ IsSMap /\ op.name = "Delete" /\ cur # recv
    /\ \E a, b \in SMReach(heap, cur) :
          /\ heap[a].kind = "smLeaf" /\ Len(heap[a].entries) = 1
          /\ heap[b].kind = "smLeaf" /\ Len(heap[b].entries) = sortedMapNodeSize

\* the keys of node a in order: the keys of a leaf's entries, the separators
\* of a branch's elements
SMNodeKeys(h, a) ==
    IF h[a].kind = "smLeaf" THEN [i \in 1..Len(h[a].entries) |-> h[a].entries[i].key]
    ELSE [i \in 1..Len(h[a].elems) |-> h[a].elems[i].key]

\* C29: in every SortedMap made by Set and Delete the keys of every leaf and
\* the separators of every branch are strictly increasing under the
\* Comparer, and the separator of every branch element is the minimum key of
\* the subtree of its child
C29_OrderedSeparators ==
    IsSMap =>
        \A a \in SMReach(heap, cur) \ {cur} :
            LET ks == SMNodeKeys(heap, a)
            IN  /\ \A i \in 1..(Len(ks) - 1) :
                      Comparer_Compare(heap[cur].comparer, ks[i], ks[i + 1]) = -1
                /\ heap[a].kind = "smBranch" =>
                      \A i \in 1..Len(ks) :
                          ks[i] = sortedMapNode_minKey(heap, heap[a].elems[i].node)

\* a Delete of the minimum key of the map, below a root of branches, that
\* changed the first separator of the root
C29_Witness ==
    /\ IsSMap /\ op.name = "Delete" /\ cur # recv
    /\ SMRootOfBranches(recv) /\ SMRootOfBranches(cur)
    /\ heap[heap[recv].root].elems[1].key = op.a
    /\ heap[heap[cur].root].elems[1].key # op.a

\* the nodes from node n down to the leaf that Get and Set of key visit
RECURSIVE SMPathTo(_, _, _, _)
SMPathTo(h, n, key, c) ==
    IF h[n].kind = "smLeaf" THEN <<n>>
    ELSE <<n>> \o SMPathTo(h, h[n].elems[sortedMapBranchNode_indexOf(h, n, key, c) + 1].node,
                           key, c)

\* the keys that node path[i], all nodes from it down the path being full,
\* gets by the insertion of key before it is split: the leaf's keys with key
\* in its place, a branch's separators with the one of the child on the path
\* replaced by the first keys of the two parts of that child
RECURSIVE SMKeysWith(_, _, _, _, _)
SMKeysWith(h, path, i, key, c) ==
    LET ks == <<>> \o SMNodeKeys(h, path[i])
    IN  IF h[path[i]].kind = "smLeaf"
        THEN SeqInsert(ks, sortedMapLeafNode_indexOf(h, path[i], key, c), key)
        ELSE LET idx == sortedMapBranchNode_indexOf(h, path[i], key, c)
                 ck  == SMKeysWith(h, path, i + 1, key, c)
             IN  SubSeq(ks, 1, idx) \o <<ck[1], ck[sortedMapNodeSize \div 2 + 1]>>
                   \o SubSeq(ks, idx + 2, Len(ks))

\* the last call was a Set of a key that the receiver did not hold
SMInserted ==
    /\ IsSMap /\ op.name = "Set" /\ cur # recv
    /\ heap[recv].root # Nil
    /\ ~SortedMap_Get(heap, recv, op.a).ok

\* after an insertion: every node of the receiver that the insertion gave 33
\* items is, in the result, two nodes that hold the first 16 and the other 17
\* of these items (of equal size, if equalHalves), the second next to the
\* first in the parent, or the two alone in a new root if the node was the root
SMSplits(equalHalves) ==
    LET c    == heap[cur].comparer
        rp   == SMPathTo(heap, heap[recv].root, op.a, c)
        full == {i \in 1..Len(rp) :
                    \A j \in i..Len(rp) : SMNodeLen(heap, rp[j]) = sortedMapNodeSize}
        half == sortedMapNodeSize \div 2
    IN  \A i \in full :
            LET ek == SMKeysWith(heap, rp, i, op.a, c)
                pa == SMPathTo(heap, heap[cur].root, ek[1], c)
                pb == SMPathTo(heap, heap[cur].root, ek[Len(ek)], c)
                A  == pa[Len(pa) - (Len(rp) - i)]
                B  == pb[Len(pb) - (Len(rp) - i)]
            IN  /\ <<>> \o SMNodeKeys(heap, A) = SubSeq(ek, 1, half)
                /\ <<>> \o SMNodeKeys(heap, B) = SubSeq(ek, half + 1, Len(ek))
                /\ equalHalves => SMNodeLen(heap, A) = SMNodeLen(heap, B)
                /\ IF i = 1
                   THEN /\ heap[heap[cur].root].kind = "smBranch"
                        /\ Len(heap[heap[cur].root].elems) = 2
                        /\ heap[heap[cur].root].elems[1].node = A
                        /\ heap[heap[cur].root].elems[2].node = B
                   ELSE (i - 1) \notin full =>
                        LET P == heap[pa[Len(pa) - (Len(rp) - i) - 1]]
                        IN  /\ Len(P.elems) = Len(heap[rp[i - 1]].elems) + 1
                            /\ \E j \in 1..(Len(P.elems) - 1) :
                                   P.elems[j].node = A /\ P.elems[j + 1].node = B

\* C30 as stated: a leaf or branch that an insertion would give 33 items is
\* split at index 16 into two halves of equal size, the first in the place of
\* the node and the second as its next sibling in the parent (in a new root
\* of exactly these two if the node was the root)
C30_SplitEqualHalves == SMInserted => SMSplits(TRUE)

\* C30: such a node is split at index 16 into a first part of 16 items and a
\* second part of 17 items, the first in the place of the node and the second
\* as its next sibling in the parent (in a new root of exactly these two if
\* the node was the root)
C30_Split16And17 == SMInserted => SMSplits(FALSE)

\* an insertion into a full leaf below a full root branch: the leaf and the
\* root were split and a new root holds the two parts of the old one
C30_Witness ==
    /\ SMInserted
    /\ heap[heap[recv].root].kind = "smBranch"
    /\ Len(heap[heap[recv].root].elems) = sortedMapNodeSize
    /\ SMRootOfBranches(cur)
    /\ Len(heap[heap[cur].root].elems) = 2

\* the depths, below node n at depth d, at which the leaves lie
RECURSIVE SMLeafDepths(_, _, _)
SMLeafDepths(h, n, d) ==
    IF h[n].kind = "smLeaf" THEN {d}
    ELSE UNION {SMLeafDepths(h, h[n].elems[i].node, d + 1) : i \in 1..Len(h[n].elems)}

\* C35: in every SortedMap made by Set and Delete all leaves lie at the same
\* depth below the root
C35_LeavesSameDepth ==
    (IsSMap /\ heap[cur].root # Nil) =>
        Cardinality(SMLeafDepths(heap, heap[cur].root, 0)) = 1

\* a Delete that removed a leaf from the first branch below a root of
\* branches: the leaves that are left lie at depth 2
C35_Witness ==
    /\ IsSMap /\ op.name = "Delete" /\ cur # recv
    /\ SMRootOfBranches(recv) /\ SMRootOfBranches(cur)
    /\ Len(heap[heap[heap[cur].root].elems[1].node].elems)
           = Len(heap[heap[heap[recv].root].elems[1].node].elems) - 1
    /\ SMLeafDepths(heap, heap[cur].root, 0) = {2}

\* C37: an iterator from Last moved by Prev returns stored pairs in strictly
\* descending key order, is Done exactly when every stored pair was returned,
\* and a Prev on a Done iterator returns a nil key; while it is not Done the
\* iterator is at the greatest stored key below the key returned last (at
\* the greatest stored key after Last), also when that key is the last
\* entry of the leaf or subtree before
C37_IterDescending ==
    (itr.kind = "smItr" /\ op.name \in {"Last", "Prev"}) =>
        LET c == heap[itr.m].comparer
            below == IF out = <<>> THEN abs
                     ELSE {p \in abs : Comparer_Compare(c, p[1], out[Len(out)].key) = -1}
        IN  /\ \A i \in 1..Len(out) : <<out[i].key, out[i].value>> \in abs
            /\ \A i \in 1..(Len(out) - 1) :
                  Comparer_Compare(c, out[i].key, out[i + 1].key) = 1
            /\ SMItr_Done(itr) <=> (Len(out) = Cardinality(abs))
            /\ ~SMItr_Done(itr) =>
                  LET r == SMItr_Prev(heap, itr)
                  IN  /\ <<r.key, r.value>> \in below
                      /\ \A p \in below : Comparer_Compare(c, p[1], r.key) <= 0
            /\ op.name = "Prev" =>
                  IF op.b = 1 THEN op.a = Nil /\ op.v = Nil /\ SMItr_Done(itr)
                  ELSE op.a # Nil /\ out[Len(out)] = [key |-> op.a, value |-> op.v]

\* a Prev that returned the first pair below the second branch of a root of
\* branches and moved to the last entry of the last leaf of the first branch
C37_Witness ==
    /\ itr.kind = "smItr" /\ op.name = "Prev" /\ op.b = 0
    /\ SMRootOfBranches(itr.m)
    /\ itr.depth = 2
    /\ itr.stack[0].index = 0
    /\ itr.stack[1].index = Len(heap[itr.stack[1].node].elems) - 1
    /\ itr.stack[2].index = Len(heap[itr.stack[2].node].entries) - 1
    /\ op.a = sortedMapNode_minKey(heap, heap[heap[itr.m].root].elems[2].node)

\* C16 as stated: a Prev right after a Next that left the iterator not Done
\* returns the pair that Next returned
C16_PrevSamePair ==
    (itr.kind = "smItr" /\ op.name = "Prev" /\ op.b = 0) =>
        [key |-> op.a, value |-> op.v] = out[Len(out)]

\* C16: a Prev right after a Next that left the iterator not Done returns
\* the pair of the smallest stored key greater than the key Next returned
C16_PrevNextPair ==
    (itr.kind = "smItr" /\ op.name = "Prev" /\ op.b = 0) =>
        /\ <<op.a, op.v>> \in abs
        /\ Comparer_Compare(heap[itr.m].comparer, out[Len(out)].key, op.a) = -1
        /\ \A p \in abs :
              Comparer_Compare(heap[itr.m].comparer, out[Len(out)].key, p[1]) = -1 =>
                  Comparer_Compare(heap[itr.m].comparer, op.a, p[1]) <= 0

\* a Prev after the Next that returned the last pair of the first leaf
C16_Witness ==
    /\ itr.kind = "smItr" /\ op.name = "Prev" /\ op.b = 0
    /\ heap[heap[itr.m].root].kind = "smBranch"
    /\ op.a = sortedMapNode_minKey(heap, heap[heap[itr.m].root].elems[2].node)
    /\ out[Len(out)].key < op.a
    /\ Len(out) <= sortedMapNodeSize

----------------------------------------------------------------------------
\* C21: a Set or Delete on a map that carries a Hasher returns a map that
\* carries the same Hasher, whatever the key and also when the receiver or
\* the result is empty
C21_Step ==
    (IsMap /\ heap[cur].hasher # "none" /\ op'.name \in {"Set", "Delete"}) =>
        heap'[cur'].hasher = heap[cur].hasher

C21_HasherPinned == [][C21_Step]_vars

\* a Set of a string key on a map that was emptied by Delete and carries the
\* hasher of ints
C21_Witness ==
    /\ IsMap /\ op.name = "Set" /\ KeyKind(op.a) = "string"
    /\ heap[recv].root = Nil /\ shrunk = MaxMapGrow
    /\ heap[recv].hasher = "intHasher" /\ heap[cur].hasher = "intHasher"

-----------------------------------------------------------------------------
(* All three collections *)

Init == ListInit \/ MapInit \/ SMInit

Next == ListNext \/ MapNext \/ SMNext

Spec == Init /\ [][Next]_vars

\* the built-in Hasher and Comparer of a kind of key
DefaultFor(kind) ==
    IF kind = "int" THEN {"intHasher", "intComparer"}
    ELSE IF kind = "string" THEN {"stringHasher", "stringComparer"}
    ELSE IF kind = "[]byte" THEN {"byteSliceHasher", "byteSliceComparer"}
    ELSE {}

\* the Hasher of a Map, the Comparer of a SortedMap
Ordering(h, m) == IF h[m].kind = "Map" THEN h[m].hasher ELSE h[m].comparer

C20_Step ==
    (IsMap \/ IsSMap) =>
        /\ (op'.name = "Set" /\ Ordering(heap, cur) = "none") =>
              /\ KeyKind(op'.a) \in {"int", "string", "[]byte"}
              /\ Ordering(heap', cur') \in DefaultFor(KeyKind(op'.a))
        /\ (op'.name = "Panic" /\ Ordering(heap, cur) = "none") =>
              /\ KeyKind(op'.a) \notin {"int", "string", "[]byte"}
              /\ op'.err.class = IF IsMap THEN "MissingHasher" ELSE "MissingComparer"
        /\ op'.name = "Panic" => heap' = heap /\ cur' = cur
        /\ Ordering(heap, cur) # "none" =>
              ~(op'.name = "Panic"
                  /\ op'.err.class \in {"MissingHasher", "MissingComparer"})

\* C20: Set on a Map or SortedMap without Hasher or Comparer succeeds with
\* the built-in one for an int, string or byte slice key and panics with
\* MissingHasher or MissingComparer for a key of another kind; a Set that
\* panics allocates nothing and leaves the receiver as it was; on a map that
\* has a Hasher or Comparer no Set panics with this error
C20_DefaultByKind == [][C20_Step]_vars

\* a Set of a float64 key that panicked on a new SortedMap without Comparer
C20_Witness ==
    /\ IsSMap /\ op.name = "Panic"
    /\ op.err = Panicked("Set", "MissingComparer")
    /\ KeyKind(op.a) = "float64"
    /\ heap[cur].comparer = "none"
    /\ SortedMap_Len(heap, cur) = 0

\* C17: a Delete returns the collection it was called on, the same facade,
\* exactly if the key was not stored in it, for a Map and for a SortedMap
C17_DeleteIdentity ==
    (op.name = "Delete" /\ (IsMap \/ IsSMap)) =>
        LET stored == IF IsMap THEN Map_Get(heap, recv, op.a).ok
                      ELSE SortedMap_Get(heap, recv, op.a).ok
        IN  cur = recv <=> ~stored

\* a Delete, on a map with a hash-array root, of a key that is not stored
\* and has the hash of the two keys of a collision leaf
C17_Witness ==
    /\ IsMap /\ op.name = "Delete" /\ op.a = CollideKey2
    /\ cur = recv
    /\ MapRootKind(cur) = "mapHashArray"
    /\ {1, CollideKey1} \subseteq MapStored(heap, cur)
    /\ heap[cur].hasher = "userHasher"

\* the pairs an iterator returns until it is Done
RECURSIVE SMItr_collect(_, _, _)
SMItr_collect(h, it, acc) ==
    IF SMItr_Done(it) THEN acc
    ELSE LET r == SMItr_Next(h, it)
         IN  SMItr_collect(h, r.it, Append(acc, <<r.key, r.value>>))

\* what reads of collection c in heap h yield: Len, Get, and for a SortedMap
\* of at most MaxItrLen keys the iteration
Observe(h, c) ==
    IF h[c].kind = "List"
    THEN [len |-> List_Len(h, c), get |-> <<>> \o ListObs(h, c), iter |-> <<>>]
    ELSE IF h[c].kind = "Map"
    THEN [len |-> Map_Len(h, c),
          get |-> [k \in AllMapKeys |-> Map_Get(h, c, k)] @@ <<>>, iter |-> <<>>]
    ELSE [len |-> SortedMap_Len(h, c),
          get |-> [k \in SMObsKeys |-> SortedMap_Get(h, c, k)] @@ <<>>,
          iter |-> IF SortedMap_Len(h, c) <= MaxItrLen
                   THEN SMItr_collect(h, SortedMap_Iterator(h, c), <<>>)
                   ELSE <<>>]

\* a step that applies Set, Append, Prepend, Slice or Delete to cur writes no
\* object of the heap and leaves what reads of cur yield as it was
C1_Step ==
    (op'.name \in {"Set", "Append", "Prepend", "Slice", "Delete"} /\ recv' = cur) =>
        /\ Len(heap') >= Len(heap)
        /\ \A a \in 1..Len(heap) : heap'[a] = heap[a]
        /\ Observe(heap', cur) = Observe(heap, cur)

\* C1: Set, Append, Prepend, Slice and Delete leave their receiver observably
\* unchanged (Len, Get, iteration) and write no node reachable from it
C1_ReceiverUnchanged == [][C1_Step]_vars

\* a Set on a list with a branch root, whose result reads differently from
\* the receiver
C1_Witness ==
    /\ IsList /\ op.name = "Set" /\ recv # Nil /\ recv # cur
    /\ RootDepth(recv) >= 1
    /\ ListObs(heap, recv) # ListObs(heap, cur)

----------------------------------------------------------------------------
(* One reader and writers on a collection value *)

\* A reader holds an iterator on a collection value c and steps it; writers
\* derive new values from c and from the value derived last (cur).  The heap
\* is the memory all of them share.  An operation of a writer is one step:
\* it reads objects of the heap and allocates new ones, and its result is
\* published when it returns.  abs holds what the reader is to see: the
\* contents of c and the iteration of c run alone, both taken when the
\* iterator was created.

\* the pairs a ListIterator returns until it is Done
RECURSIVE ListItr_collect(_, _, _)
ListItr_collect(h, it, acc) ==
    IF ListItr_Done(h, it) THEN acc
    ELSE LET r == ListItr_Next(h, it)
         IN  ListItr_collect(h, r.it, Append(acc, <<r.index, r.value>>))

\* the pairs a MapIterator returns until it is Done
RECURSIVE MapItr_collect(_, _, _)
MapItr_collect(h, it, acc) ==
    IF MapItr_Done(it) THEN acc
    ELSE LET r == MapItr_Next(h, it)
         IN  MapItr_collect(h, r.it, Append(acc, <<r.key, r.value>>))

\* the collection the reader iterates
SharedOf(it) == IF it.kind = "listItr" THEN it.list ELSE it.m

\* the collections a reader is given: a small one and the largest of the
\* growth steps
SharedBase ==
    /\ itr.kind = "none" /\ nops = 0 /\ shrunk = 0
    /\ grown \in {2, IF IsList THEN MaxListGrow ELSE IF IsMap THEN MaxMapGrow ELSE MaxSMGrow}

\* the reader calls List.Iterator
SharedListIterator ==
    /\ IsList /\ SharedBase
    /\ itr' = List_Iterator(heap, cur)
    /\ abs' = [contents |-> abs, alone |-> ListItr_collect(heap, List_Iterator(heap, cur), <<>>)]
    /\ out' = <<>>
    /\ op' = [NoOp EXCEPT !.name = "Iterator"]
    /\ UNCHANGED <<heap, cur, recv, grown, shrunk, nops>>

\* the reader calls Map.Iterator
SharedMapIterator ==
    /\ IsMap /\ SharedBase
    /\ itr' = Map_Iterator(heap, cur)
    /\ abs' = [contents |-> abs, alone |-> MapItr_collect(heap, Map_Iterator(heap, cur), <<>>)]
    /\ out' = <<>>
    /\ op' = [NoOp EXCEPT !.name = "Iterator"]
    /\ UNCHANGED <<heap, cur, recv, grown, shrunk, nops>>

\* the reader calls SortedMap.Iterator
SharedSMIterator ==
    /\ IsSMap /\ SharedBase
    /\ itr' = SortedMap_Iterator(heap, cur)
    /\ abs' = [contents |-> abs,
               alone |-> SMItr_collect(heap, SortedMap_Iterator(heap, cur), <<>>)]
    /\ out' = <<>>
    /\ op' = [NoOp EXCEPT !.name = "Iterator"]
    /\ UNCHANGED <<heap, cur, recv, grown, shrunk, nops>>

\* the reader calls ListIterator.Next
SharedListNext ==
    /\ itr.kind = "listItr" /\ ~ListItr_Done(heap, itr)
    /\ LET r == ListItr_Next(heap, itr)
       IN  /\ itr' = r.it
           /\ out' = Append(out, <<r.index, r.value>>)
           /\ op' = [NoOp EXCEPT !.name = "Next", !.a = r.index, !.v = r.value]
    /\ UNCHANGED <<heap, cur, recv, grown, shrunk, nops, abs>>

\* the reader calls MapIterator.Next
SharedMapNext ==
    /\ itr.kind = "mapItr" /\ ~MapItr_Done(itr)
    /\ LET r == MapItr_Next(heap, itr)
       IN  /\ itr' = r.it
           /\ out' = Append(out, <<r.key, r.value>>)
           /\ op' = [NoOp EXCEPT !.name = "Next", !.a = r.key, !.v = r.value]
    /\ UNCHANGED <<heap, cur, recv, grown, shrunk, nops, abs>>

\* the reader calls SortedMapIterator.Next
SharedSMNext ==
    /\ itr.kind = "smItr" /\ ~SMItr_Done(itr)
    /\ LET r == SMItr_Next(heap, itr)
       IN  /\ itr' = r.it
           /\ out' = Append(out, <<r.key, r.value>>)
           /\ op' = [NoOp EXCEPT !.name = "Next", !.a = r.key, !.v = r.value]
    /\ UNCHANGED <<heap, cur, recv, grown, shrunk, nops, abs>>

\* a writer may derive a value: from the reader's collection or from the
\* value derived last
SharedFrom == {SharedOf(itr), cur}
MayWrite(kind) == itr.kind = kind /\ nops < MaxSharedOps

\* a writer's call on r returned
Wrote(r, res, opn) ==
    /\ heap' = res.h
    /\ cur' = res.n
    /\ recv' = r
    /\ op' = opn
    /\ nops' = nops + 1
    /\ UNCHANGED <<grown, shrunk, itr, out, abs>>

SharedListAppend ==
    /\ MayWrite("listItr")
    /\ \E r \in SharedFrom :
          Wrote(r, List_Append(heap, r, FreshVal),
                [NoOp EXCEPT !.name = "Append", !.v = FreshVal])

SharedListPrepend ==
    /\ MayWrite("listItr")
    /\ \E r \in SharedFrom :
          Wrote(r, List_Prepend(heap, r, FreshVal),
                [NoOp EXCEPT !.name = "Prepend", !.v = FreshVal])

SharedListSet ==
    /\ MayWrite("listItr")
    /\ \E r \in SharedFrom : \E i \in {0, List_Len(heap, r) - 1} :
          /\ List_Set_panic(heap, r, i) = "none"
          /\ Wrote(r, List_Set(heap, r, i, FreshVal),
                   [NoOp EXCEPT !.name = "Set", !.a = i, !.v = FreshVal])

SharedListSlice ==
    /\ MayWrite("listItr")
    /\ \E r \in SharedFrom : \E a \in {0, 1} : \E b \in {1, List_Len(heap, r)} :
          /\ List_Slice_panic(heap, r, a, b) = "none"
          /\ Wrote(r, List_Slice(heap, r, a, b),
                   [NoOp EXCEPT !.name = "Slice", !.a = a, !.b = b])

\* the keys of the writers of a Map: a key of the growth steps and a new one
SharedMapKeys == {MapSpineKey(2), 63}

SharedMapSet ==
    /\ MayWrite("mapItr")
    /\ \E r \in SharedFrom : \E k \in SharedMapKeys :
          /\ Map_Set_panic(heap, r, k) = "none"
          /\ Wrote(r, Map_Set(heap, r, k, FreshVal),
                   [NoOp EXCEPT !.name = "Set", !.a = k, !.v = FreshVal])

SharedMapDelete ==
    /\ MayWrite("mapItr")
    /\ \E r \in SharedFrom : \E k \in SharedMapKeys :
          Wrote(r, Map_Delete(heap, r, k), [NoOp EXCEPT !.name = "Delete", !.a = k])

\* the keys of the writers of a SortedMap: the smallest key and a new one
SharedSMKeys == {SMSpineKey(1), 33}

SharedSMSet ==
    /\ MayWrite("smItr")
    /\ \E r \in SharedFrom : \E k \in SharedSMKeys :
          /\ SortedMap_Set_panic(heap, r, k) = "none"
          /\ Wrote(r, SortedMap_Set(heap, r, k, FreshVal),
                   [NoOp EXCEPT !.name = "Set", !.a = k, !.v = FreshVal])

SharedSMDelete ==
    /\ MayWrite("smItr")
    /\ \E r \in SharedFrom : \E k \in SharedSMKeys :
          Wrote(r, SortedMap_Delete(heap, r, k), [NoOp EXCEPT !.name = "Delete", !.a = k])

SharedNext ==
    \/ ListGrow \/ MapGrow \/ SMGrow
    \/ SharedListIterator \/ SharedMapIterator \/ SharedSMIterator
    \/ SharedListNext \/ SharedMapNext \/ SharedSMNext
    \/ SharedListAppend \/ SharedListPrepend \/ SharedListSet \/ SharedListSlice
    \/ SharedMapSet \/ SharedMapDelete \/ SharedSMSet \/ SharedSMDelete

SpecShared == Init /\ [][SharedNext]_vars

\* what the reader's collection c holds, read by Len and Get
SharedHolds(h, c, contents) ==
    IF h[c].kind = "List" THEN ListHolds(h, c, contents)
    ELSE IF h[c].kind = "Map"
    THEN /\ Map_Len(h, c) = Cardinality(contents)
         /\ \A p \in contents : Map_Get(h, c, p[1]) = Found(p[2])
    ELSE /\ SortedMap_Len(h, c) = Cardinality(contents)
         /\ \A p \in contents : SortedMap_Get(h, c, p[1]) = Found(p[2])

\* the iteration of c from a new iterator, run alone
IterAlone(h, c) ==
    IF h[c].kind = "List" THEN ListItr_collect(h, List_Iterator(h, c), <<>>)
    ELSE IF h[c].kind = "Map" THEN MapItr_collect(h, Map_Iterator(h, c), <<>>)
    ELSE SMItr_collect(h, SortedMap_Iterator(h, c), <<>>)

\* while a reader iterates: a step writes no object of the heap, and after it
\* the collection reads as when the iterator was created, its iteration run
\* alone is the same, and the reader has been given the first pairs of it
C23_Step ==
    itr'.kind # "none" =>
        LET c == SharedOf(itr')
        IN  /\ itr.kind # "none" =>
                  /\ Len(heap') >= Len(heap)
                  /\ \A a \in 1..Len(heap) : heap'[a] = heap[a]
            /\ SharedHolds(heap', c, abs'.contents)
            /\ IterAlone(heap', c) = abs'.alone
            /\ Len(out') <= Len(abs'.alone)
            /\ out' = SubSeq(abs'.alone, 1, Len(out'))

\* C23: with a reader stepping its iterator on a collection value c while
\* writers derive values from c and its descendants by Set, Append, Prepend,
\* Slice and Delete, in every interleaving of their steps no object reachable
\* from c is written, the reader reads the contents of c and its iteration
\* is the one it has when run alone
C23_ReaderIsolated == [][C23_Step]_vars

\* the reader has finished the iteration of a Map with a hash-array root
\* after the writers derived MaxSharedOps values, the last one from a
\* descendant of the reader's map
C23_Witness ==
    /\ itr.kind = "mapItr" /\ MapItr_Done(itr) /\ op.name = "Next"
    /\ MapRootKind(itr.m) = "mapHashArray"
    /\ nops = MaxSharedOps /\ recv # itr.m /\ cur # recv
    /\ out = abs.alone /\ Len(out) = MaxMapGrow

====
